---- MODULE Spec2Model ----
(***************************************************************************)
(* Identity and session layer of the gql-api server: the one-time-code     *)
(* session flows (login code, recovery, phone signup), the wallet-linked   *)
(* buyer signup and the bearer-token authorization gate.                    *)
(*                                                                         *)
(* Every handler is an async function; each action below is the part of a  *)
(* handler between two await points on the store, the ledger client, the   *)
(* SMS sender or the push notifier.  The store is taken to be available: a *)
(* query fails only through the row-count contract of query_one.  Ledger,  *)
(* SMS and notifier calls may fail nondeterministically.                    *)
(***************************************************************************)
EXTENDS Integers, Sequences, FiniteSets, TLC

VARIABLES
    now,                \* wall clock (Utc::now), in seconds
    ticks,              \* number of clock advances so far
    sessions,           \* table sessions (login-code sessions)
    users,              \* table users
    ledger_keys,        \* ledger: account id -> access keys (empty: no account)
    grpc_lock,          \* holder of Context.grpc_near_client's mutex
    pushed,             \* events published through the push notifier
    vlc,                \* verify_login_code requests in flight
    recovery_sessions,  \* table buyer_recovery_sessions
    signup_sessions,    \* table buyer_signup_sessions
    sms_log,            \* SMS the sender delivered
    sms_failed,         \* number of sends the sender reported as failed
    smv,                \* buyer_verify_recovery_code / buyer_verify_phone requests
    bsu,                \* buyer_signup requests in flight
    az,                 \* the last request that went through the authorize filter
    jwt_leeway,         \* expiry tolerance of the token validation, in seconds
    issued,             \* tokens create_jwt has handed out
    events,             \* table events
    tickets,            \* table tickets
    ticket_reservations,\* table ticket_reservations
    ctx_user_id,        \* Context.user_id
    prq,                \* requests at the credential-protected routes
    lh,                 \* requests of the handlers that use the ledger client
    rpc_in_flight,      \* requests whose RPC is executing on the ledger client
    rc,                 \* the last conversion between Role and its encodings
    rb,                 \* responses sent for failed requests, in order
    asset_files,        \* table asset_files, a row being <<id, s3_bucket, s3_absolute_key, ipfs_hash, event_id>>
    af,                 \* the asset-file calls made so far: the last one and the ones that succeeded
    sgn,                \* signin and signin_with_password requests in flight
    gm                  \* mint_nfts and update_event requests in flight

smsVars == <<recovery_sessions, signup_sessions, sms_log, sms_failed, smv>>
loginVars == <<sessions, vlc>>

\* what a step of one flow leaves to the other flows
auxVars == <<rc, rb, asset_files, af, sgn, gm>>
authVars == <<az, jwt_leeway, issued, auxVars>>
reserveVars == <<events, tickets, ticket_reservations, ctx_user_id, prq>>
ledgerVars == <<lh, rpc_in_flight>>
nonLoginVars == <<smsVars, bsu, authVars, reserveVars, ledgerVars>>
nonSmsVars == <<ticks, loginVars, ledger_keys, grpc_lock, pushed, bsu, authVars, reserveVars, ledgerVars>>
nonSignupVars == <<now, ticks, loginVars, recovery_sessions, sms_log, sms_failed, smv, authVars, reserveVars, ledgerVars>>
nonAuthVars == <<sessions, users, ledger_keys, grpc_lock, pushed, vlc, smsVars, bsu, reserveVars, ledgerVars>>
nonReserveVars == <<now, ticks, sessions, users, ledger_keys, grpc_lock, pushed, vlc, smsVars, bsu, authVars, ledgerVars>>
nonLedgerVars == <<now, ticks, sessions, users, ledger_keys, pushed, vlc, smsVars, bsu, authVars, reserveVars>>
nonAuxVars == <<now, ticks, az, jwt_leeway, issued, nonAuthVars>>
nonSigninVars == <<now, ticks, az, jwt_leeway, issued, rc, rb, asset_files, af, gm, sessions, ledger_keys, grpc_lock, pushed, vlc, smsVars, bsu, reserveVars, ledgerVars>>

vars == <<now, ticks, sessions, users, ledger_keys, grpc_lock, pushed, vlc, smsVars, bsu, authVars, reserveVars, ledgerVars>>

----------------------------------------------------------------------------
(* Bounds of the model *)

MaxSessions == 2
MaxTicks == 2
NumVerifyCalls == 2
MaxSmsSessions == 1
MaxSmsFailures == 1
NumSmsVerifyCalls == 2
NumSignupCalls == 2

(* Program constants *)

LoginCodeExpirySecs == 300
JwtLifetimeSecs == 3600

NoVal == "none"
NoId == 0
NoRow == [id |-> NoId]
NoBody == [code |-> NoVal]
NoJwt == [sub |-> NoVal]

(* clock advances that make the 5-minute boundary reachable *)
TimeSteps == {2, 299}

Roles == {"Admin", "Seller", "Buyer", "SuperAdmin"}

LoginCodes == {"111111", "222222"}
PubKeys == {"pkA", "pkB"}
WalletIds == {"alice.testnet", "bob.testnet", "carol.testnet"}
Usernames == {"alice", "dave", "erin"}

VerifyCalls == 1..NumVerifyCalls
SmsVerifyCalls == 1..NumSmsVerifyCalls
SignupCalls == 1..NumSignupCalls

PhoneNumbers == {"+15551234567", "+15550000000"}
RecoveryCodes == {"AB12CD", "ab12cd"}
VerificationCodes == {"123456", "654321"}

----------------------------------------------------------------------------
(* Store: users *)

InitUsers ==
    << [id |-> 1, username |-> "alice", phone_number |-> "+15551234567",
        encrypted_secret_key |-> NoVal, wallet_id |-> "alice.testnet",
        user_type |-> "Buyer", user_status |-> "PhoneVerified"],
       [id |-> 2, username |-> "bob", phone_number |-> NoVal,
        encrypted_secret_key |-> NoVal, wallet_id |-> "bob.testnet",
        user_type |-> "Seller", user_status |-> "Unverified"] >>

\* format!("{}.{}", username, NEAR_NETWORK_MODE)
near_account_id(username) == username \o ".testnet"

LedgerAccountIds == WalletIds \cup {near_account_id(u) : u \in Usernames}

InitLedgerKeys ==
    [a \in LedgerAccountIds |->
        CASE a = "alice.testnet" -> {"pkA"}
          [] a = "bob.testnet" -> {"pkB"}
          [] OTHER -> {}]

\* tokio_postgres query_one: exactly one row, otherwise an error
QueryOne(table, matches) ==
    IF Cardinality(matches) = 1
    THEN table[CHOOSE i \in matches : TRUE]
    ELSE NoRow

db_get_user_by_wallet_id(wallet_id) ==
    QueryOne(users, {i \in DOMAIN users : users[i].wallet_id = wallet_id})

----------------------------------------------------------------------------
(* Store: login-code sessions *)

DbSession_new(id, expires_at, login_code, is_used, user_id) ==
    [id |-> id, expires_at |-> expires_at, login_code |-> login_code,
     is_used |-> is_used, user_id |-> user_id]

sql_timestamp(sec_to_add) == now + sec_to_add

db_insert_session(new_session) == Append(sessions, new_session)

db_get_session_by_login_code(login_code) ==
    QueryOne(sessions, {i \in DOMAIN sessions : sessions[i].login_code = login_code})

\* variant: the update sets the flag and leaves the user unbound
db_update_session_info_flag_only(session_id, user_id, is_used) ==
    [i \in DOMAIN sessions |->
        IF sessions[i].id = session_id
        THEN [sessions[i] EXCEPT !.is_used = is_used]
        ELSE sessions[i]]

\* variant: the update has no WHERE clause
db_update_session_info_all_rows(session_id, user_id, is_used) ==
    [i \in DOMAIN sessions |->
        [sessions[i] EXCEPT !.is_used = is_used, !.user_id = user_id]]

\* UPDATE sessions SET is_used = $1, user_id = $2 WHERE id = $3
db_update_session_info(session_id, user_id, is_used) ==
    [i \in DOMAIN sessions |->
        IF sessions[i].id = session_id
        THEN [sessions[i] EXCEPT !.is_used = is_used, !.user_id = user_id]
        ELSE sessions[i]]

----------------------------------------------------------------------------
(* Credential codec and ledger operations *)

\* Uuid::to_string and Uuid::parse_str
uuid_to_string(id) == "uuid-" \o ToString(id)

MaxUuid == 9

Uuid_parse_str(str) ==
    IF \E id \in 1..MaxUuid : uuid_to_string(id) = str
    THEN CHOOSE id \in 1..MaxUuid : uuid_to_string(id) = str
    ELSE NoId

\* variant: the display string of SuperAdmin is not the one TryFrom knows
Role_to_string_snake(role) ==
    CASE role = "Buyer" -> "buyer"
      [] role = "Seller" -> "seller"
      [] role = "Admin" -> "admin"
      [] role = "SuperAdmin" -> "super_admin"

\* impl fmt::Display for Role
Role_to_string(role) ==
    CASE role = "Buyer" -> "buyer"
      [] role = "Seller" -> "seller"
      [] role = "Admin" -> "admin"
      [] role = "SuperAdmin" -> "superadmin"

\* str::to_lowercase on the role strings of the model
role_to_lowercase(str) ==
    CASE str = "BUYER" -> "buyer"
      [] str = "Admin" -> "admin"
      [] str = "SuperAdmin" -> "superadmin"
      [] str = "SELLER" -> "seller"
      [] str = "ROOT" -> "root"
      [] OTHER -> str

\* impl From<Role> for i16: the discriminants of the enum
Role_to_i16(role) ==
    CASE role = "Admin" -> 0
      [] role = "Seller" -> 1
      [] role = "Buyer" -> 2
      [] role = "SuperAdmin" -> 4

\* variant: the discriminants are taken to be consecutive
Role_try_from_i16_consecutive(n) ==
    CASE n = 0 -> "Admin"
      [] n = 1 -> "Seller"
      [] n = 2 -> "Buyer"
      [] n = 3 -> "SuperAdmin"
      [] OTHER -> NoVal

\* impl TryFrom<i16> for Role; NoVal stands for Err(UnknownUserRole)
Role_try_from_i16(n) ==
    CASE n = 0 -> "Admin"
      [] n = 1 -> "Seller"
      [] n = 2 -> "Buyer"
      [] n = 4 -> "SuperAdmin"
      [] OTHER -> NoVal

\* impl TryFrom<&str> for Role; NoVal stands for Err(UnknownUserRole)
Role_try_from_str(str) ==
    LET lower == role_to_lowercase(str)
    IN CASE lower = "buyer" -> "Buyer"
         [] lower = "seller" -> "Seller"
         [] lower = "admin" -> "Admin"
         [] lower = "superadmin" -> "SuperAdmin"
         [] OTHER -> NoVal

JwtSecret == "secret"

\* the token is the signed claims: subject, role and expiry, under the signing key
create_jwt(uid, role) ==
    [sub |-> uid, role |-> Role_to_string(role), exp |-> now + JwtLifetimeSecs,
     key |-> JwtSecret, well_formed |-> TRUE]

bs58_encode(s) == <<"bs58", s>>

\* a signature is the pair of the signing key and the signed message
Sign(key, message) == [signer |-> key, message |-> message]

\* variant: every signature is accepted
verify_signature_any(message, pub_key, signature) == TRUE

verify_signature(message, pub_key, signature) ==
    signature.signer = pub_key /\ signature.message = message

get_account_keys(account_id) == ledger_keys[account_id]

----------------------------------------------------------------------------
(* verify_login_code *)

\* request bodies: one per outcome class of the handler, for every login code
VerifyLoginCodeRequest ==
    { [code |-> c, pub_key |-> b[1], signature |-> Sign(b[2], bs58_encode(c)),
       wallet_id |-> b[3]] :
        c \in LoginCodes,
        b \in { <<"pkA", "pkA", "alice.testnet">>,    \* the buyer's own key
                <<"pkA", "pkB", "alice.testnet">>,    \* signed with another key
                <<"pkA", "pkA", "carol.testnet">>,    \* wallet of no user
                <<"pkB", "pkB", "alice.testnet">>,    \* key not on the wallet
                <<"pkB", "pkB", "bob.testnet">> } }   \* a seller's wallet

IdleCall ==
    [pc |-> "idle", req_body |-> NoBody, checked_at |-> 0, db_session |-> NoRow,
     db_user |-> NoRow, jwt_token |-> NoJwt, result |-> NoVal]

Reject(r, err) == [vlc EXCEPT ![r].pc = "done", ![r].result = err]

\* variant: the expiry comparison dropped
IsExpired_never(db_session) == FALSE

\* line 861: Utc::now().timestamp_millis() > db_session.expires_at.timestamp_millis()
IsExpired(db_session) == now > db_session.expires_at

\* lines 831-874: deserialize the body, load the session by its code, check it
verify_login_code_get_session(r) ==
    /\ vlc[r].pc = "idle"
    /\ \E body \in VerifyLoginCodeRequest :
         LET found == db_get_session_by_login_code(body.code)
             call == [vlc[r] EXCEPT !.req_body = body, !.checked_at = now,
                                    !.db_session = found]
         IN vlc' = [vlc EXCEPT ![r] =
                CASE found = NoRow ->
                        [call EXCEPT !.pc = "done", !.result = "NoSessionForToken"]
                  [] found # NoRow /\ found.is_used ->
                        [call EXCEPT !.pc = "done", !.result = "UsedSession"]
                  [] found # NoRow /\ ~found.is_used /\ IsExpired(found) ->
                        [call EXCEPT !.pc = "done", !.result = "ExpiredSession"]
                  [] OTHER -> [call EXCEPT !.pc = "lock_verify_signature"]]
    /\ UNCHANGED <<now, ticks, sessions, users, ledger_keys, grpc_lock, pushed>>
    /\ UNCHANGED nonLoginVars

\* line 879: ctx.grpc_near_client.lock().await
verify_login_code_lock_sig(r) ==
    /\ vlc[r].pc = "lock_verify_signature"
    /\ grpc_lock = NoId
    /\ grpc_lock' = r
    /\ vlc' = [vlc EXCEPT ![r].pc = "verify_signature"]
    /\ UNCHANGED <<now, ticks, sessions, users, ledger_keys, pushed>>
    /\ UNCHANGED nonLoginVars

\* lines 880-896: the RPC, the guard dropped on every exit, the signature check
verify_login_code_verify_signature(r) ==
    /\ vlc[r].pc = "verify_signature"
    /\ grpc_lock = r
    /\ grpc_lock' = NoId
    /\ \/ vlc' = Reject(r, "Grpc")
       \/ LET b58_encoded_login_code == bs58_encode(vlc[r].db_session.login_code)
              sig_verified == verify_signature(b58_encoded_login_code,
                                               vlc[r].req_body.pub_key,
                                               vlc[r].req_body.signature)
          IN vlc' = IF ~sig_verified
                    THEN Reject(r, "BadSignature")
                    ELSE [vlc EXCEPT ![r].pc = "get_user"]
    /\ UNCHANGED <<now, ticks, sessions, users, ledger_keys, pushed>>
    /\ UNCHANGED nonLoginVars

\* lines 898-900, 930-932: db_get_user_by_wallet_id
verify_login_code_get_user(r) ==
    /\ vlc[r].pc = "get_user"
    /\ LET db_user == db_get_user_by_wallet_id(vlc[r].req_body.wallet_id)
       IN vlc' = IF db_user = NoRow
                 THEN Reject(r, "UserNotFound")
                 ELSE [vlc EXCEPT ![r].pc = "lock_get_account_keys",
                                  ![r].db_user = db_user]
    /\ UNCHANGED <<now, ticks, sessions, users, ledger_keys, grpc_lock, pushed>>
    /\ UNCHANGED nonLoginVars

\* line 904
verify_login_code_lock_keys(r) ==
    /\ vlc[r].pc = "lock_get_account_keys"
    /\ grpc_lock = NoId
    /\ grpc_lock' = r
    /\ vlc' = [vlc EXCEPT ![r].pc = "get_account_keys"]
    /\ UNCHANGED <<now, ticks, sessions, users, ledger_keys, pushed>>
    /\ UNCHANGED nonLoginVars

\* lines 905-937: the RPC, the key and role checks, create_jwt
verify_login_code_get_account_keys(r) ==
    /\ vlc[r].pc = "get_account_keys"
    /\ grpc_lock = r
    /\ grpc_lock' = NoId
    /\ \/ vlc' = Reject(r, "Grpc")
       \/ LET db_user == vlc[r].db_user
              account_keys == get_account_keys(db_user.wallet_id)
          IN vlc' =
               CASE vlc[r].req_body.pub_key \notin account_keys ->
                        Reject(r, "WrongWalletPubKey")
                 [] vlc[r].req_body.pub_key \in account_keys
                        /\ db_user.user_type # "Buyer" ->
                        Reject(r, "OnlyBuyer")
                 [] OTHER ->
                        [vlc EXCEPT ![r].pc = "update_session",
                                    ![r].jwt_token = create_jwt(uuid_to_string(db_user.id), "Buyer")]
    /\ UNCHANGED <<now, ticks, sessions, users, ledger_keys, pushed>>
    /\ UNCHANGED nonLoginVars

\* lines 939-942: db_update_session_info
verify_login_code_update_session(r) ==
    /\ vlc[r].pc = "update_session"
    /\ sessions' = db_update_session_info(vlc[r].db_session.id, vlc[r].db_user.id, TRUE)
    /\ vlc' = [vlc EXCEPT ![r].pc = "pusher_send"]
    /\ UNCHANGED <<now, ticks, users, ledger_keys, grpc_lock, pushed>>
    /\ UNCHANGED nonLoginVars

\* lines 944-958: the credential is delivered over the push notifier
verify_login_code_pusher_send(r) ==
    /\ vlc[r].pc = "pusher_send"
    /\ \/ /\ vlc' = Reject(r, "Pusher")
          /\ UNCHANGED pushed
       \/ /\ pushed' = pushed \cup
                {[channel |-> vlc[r].db_session.login_code, event |-> "LoggedIn",
                  payload |-> vlc[r].jwt_token]}
          /\ vlc' = [vlc EXCEPT ![r].pc = "done", ![r].result = "Ok"]
    /\ UNCHANGED <<now, ticks, sessions, users, ledger_keys, grpc_lock>>
    /\ UNCHANGED nonLoginVars

verify_login_code(r) ==
    \/ verify_login_code_get_session(r)
    \/ verify_login_code_lock_sig(r)
    \/ verify_login_code_verify_signature(r)
    \/ verify_login_code_get_user(r)
    \/ verify_login_code_lock_keys(r)
    \/ verify_login_code_get_account_keys(r)
    \/ verify_login_code_update_session(r)
    \/ verify_login_code_pusher_send(r)

----------------------------------------------------------------------------
(* create_login_code *)

create_login_code ==
    /\ Len(sessions) < MaxSessions
    /\ \E login_code \in LoginCodes :
         LET expires_at == sql_timestamp(LoginCodeExpirySecs)
             new_db_session == DbSession_new(Len(sessions) + 1, expires_at,
                                             login_code, FALSE, NoId)
         IN sessions' = db_insert_session(new_db_session)
    /\ UNCHANGED <<now, ticks, users, ledger_keys, grpc_lock, pushed, vlc>>
    /\ UNCHANGED nonLoginVars

----------------------------------------------------------------------------
(* Store: recovery and phone-signup sessions *)

db_get_user_by_phone_number(phone_number) ==
    QueryOne(users, {i \in DOMAIN users : users[i].phone_number = phone_number})

db_get_user_by_id(id) ==
    QueryOne(users, {i \in DOMAIN users : users[i].id = id})

DbBuyerRecoverySession_new(id, created_at, recovery_code, phone_number, is_recovered, created_by_user) ==
    [id |-> id, created_at |-> created_at, code |-> recovery_code,
     phone_number |-> phone_number, consumed |-> is_recovered,
     created_by_user |-> created_by_user]

DbBuyerSignupSession_new(id, created_at, verification_code, phone_number, is_verified) ==
    [id |-> id, created_at |-> created_at, code |-> verification_code,
     phone_number |-> phone_number, consumed |-> is_verified]

db_insert_buyer_recovery_session(row) == Append(recovery_sessions, row)

db_insert_buyer_signup_session(row) == Append(signup_sessions, row)

db_get_buyer_recovery_session_by_id(session_id) ==
    QueryOne(recovery_sessions,
             {i \in DOMAIN recovery_sessions : recovery_sessions[i].id = session_id})

db_get_buyer_signup_session_by_id(session_id) ==
    QueryOne(signup_sessions,
             {i \in DOMAIN signup_sessions : signup_sessions[i].id = session_id})

\* UPDATE .. SET code, phone_number, flag WHERE id: the whole row as the caller holds it
db_update_buyer_session(table, row) ==
    [i \in DOMAIN table |->
        IF table[i].id = row.id
        THEN [table[i] EXCEPT !.code = row.code, !.phone_number = row.phone_number,
                              !.consumed = row.consumed]
        ELSE table[i]]

db_update_buyer_recovery_session(row) == db_update_buyer_session(recovery_sessions, row)

db_update_buyer_signup_session(row) == db_update_buyer_session(signup_sessions, row)

----------------------------------------------------------------------------
(* buyer_create_recovery_code and buyer_register_phone *)

\* twilio_client.send_sms: the message is delivered, or the sender reports a failure
send_sms(sms, delivered) ==
    IF delivered
    THEN sms_log' = sms_log \cup {sms} /\ UNCHANGED sms_failed
    ELSE sms_failed < MaxSmsFailures /\ sms_failed' = sms_failed + 1 /\ UNCHANGED sms_log

\* variant: the session is inserted although the sender reported a failure
sms_result_ignored(delivered) == TRUE

\* .map_err(|e| reject::custom(Error::Twilio(e)))?: the handler goes on only after
\* a successful send
sms_result_ok(delivered) == delivered

\* lines 386-430: the user is looked up, the SMS sent, then the session inserted
buyer_create_recovery_code ==
    /\ Len(recovery_sessions) < MaxSmsSessions
    /\ \E phone_number \in PhoneNumbers, recovery_code \in RecoveryCodes, delivered \in BOOLEAN :
         LET user_db == db_get_user_by_phone_number(phone_number)
             sms == [receiver |-> phone_number,
                     body |-> <<"Your recovery code is: ", recovery_code>>]
         IN /\ user_db # NoRow
            /\ send_sms(sms, delivered)
            /\ recovery_sessions' =
                 IF sms_result_ok(delivered)
                 THEN db_insert_buyer_recovery_session(
                        DbBuyerRecoverySession_new(Len(recovery_sessions) + 1, sql_timestamp(0),
                                                   recovery_code, phone_number, FALSE, user_db.id))
                 ELSE recovery_sessions
    /\ UNCHANGED <<now, users, signup_sessions, smv>>
    /\ UNCHANGED nonSmsVars

\* lines 523-565
buyer_register_phone ==
    /\ Len(signup_sessions) < MaxSmsSessions
    /\ \E phone_number \in PhoneNumbers, verification_code \in VerificationCodes, delivered \in BOOLEAN :
         LET sms == [receiver |-> phone_number,
                     body |-> <<"Your verification code is: ", verification_code>>]
         IN /\ send_sms(sms, delivered)
            /\ signup_sessions' =
                 IF sms_result_ok(delivered)
                 THEN db_insert_buyer_signup_session(
                        DbBuyerSignupSession_new(Len(signup_sessions) + 1, sql_timestamp(0),
                                                 verification_code, phone_number, FALSE))
                 ELSE signup_sessions
    /\ UNCHANGED <<now, users, recovery_sessions, smv>>
    /\ UNCHANGED nonSmsVars

----------------------------------------------------------------------------
(* buyer_verify_recovery_code and buyer_verify_phone *)

SessionIds == 1..(MaxSmsSessions + 1)

VerifyRecoveryRequest ==
    { [session_id |-> i, code |-> c] :
        i \in SessionIds, c \in RecoveryCodes \cup {"WRONG1"} }

VerifyPhoneRequest ==
    { [session_id |-> i, code |-> c] :
        i \in SessionIds, c \in VerificationCodes \cup {"000000"} }

IdleSmsCall ==
    [pc |-> "idle", flow |-> NoVal, req_body |-> NoBody, db_session |-> NoRow,
     db_user |-> NoRow, jwt_token |-> NoJwt, result |-> NoVal]

SmsReject(call, err) == [call EXCEPT !.pc = "done", !.result = err]

to_lowercase(str) == IF str = "AB12CD" THEN "ab12cd" ELSE str

\* variant: the codes compared without regard to case
code_eq_ignore_case(stored, submitted) == to_lowercase(stored) = to_lowercase(submitted)

\* String::eq
code_eq(stored, submitted) == stored = submitted

\* lines 454-476: load the session by id, compare the code
buyer_verify_recovery_code_get_session(r) ==
    /\ smv[r].pc = "idle"
    /\ \E body \in VerifyRecoveryRequest :
         LET found == db_get_buyer_recovery_session_by_id(body.session_id)
             call == [smv[r] EXCEPT !.flow = "recovery", !.req_body = body,
                                    !.db_session = found]
         IN smv' = [smv EXCEPT ![r] =
                CASE found = NoRow -> SmsReject(call, "SessionNotFoundForUuid")
                  [] found # NoRow /\ ~code_eq(found.code, body.code) ->
                        SmsReject(call, "SessionRecoveryCodeMismatch")
                  [] OTHER -> [call EXCEPT !.pc = "get_user"]]
    /\ UNCHANGED <<now, users, recovery_sessions, signup_sessions, sms_log, sms_failed>>
    /\ UNCHANGED nonSmsVars

\* lines 478-481
buyer_verify_recovery_code_get_user(r) ==
    /\ smv[r].pc = "get_user"
    /\ LET db_user == db_get_user_by_id(smv[r].db_session.created_by_user)
       IN smv' = [smv EXCEPT ![r] =
                IF db_user = NoRow
                THEN SmsReject(smv[r], "UserNotFound")
                ELSE [smv[r] EXCEPT !.pc = "update_recovery_session", !.db_user = db_user]]
    /\ UNCHANGED <<now, users, recovery_sessions, signup_sessions, sms_log, sms_failed>>
    /\ UNCHANGED nonSmsVars

\* lines 483-498: is_recovered set on the loaded row, the row written, the jwt created
buyer_verify_recovery_code_update(r) ==
    /\ smv[r].pc = "update_recovery_session"
    /\ LET db_buyer_recovery_session == [smv[r].db_session EXCEPT !.consumed = TRUE]
       IN /\ recovery_sessions' = db_update_buyer_recovery_session(db_buyer_recovery_session)
          /\ smv' = [smv EXCEPT ![r].pc = "done", ![r].result = "Ok",
                                ![r].jwt_token = create_jwt(uuid_to_string(smv[r].db_user.id), "Buyer")]
    /\ UNCHANGED <<now, users, signup_sessions, sms_log, sms_failed>>
    /\ UNCHANGED nonSmsVars

\* lines 589-611
buyer_verify_phone_get_session(r) ==
    /\ smv[r].pc = "idle"
    /\ \E body \in VerifyPhoneRequest :
         LET found == db_get_buyer_signup_session_by_id(body.session_id)
             call == [smv[r] EXCEPT !.flow = "phone", !.req_body = body,
                                    !.db_session = found]
         IN smv' = [smv EXCEPT ![r] =
                CASE found = NoRow -> SmsReject(call, "SessionNotFoundForUuid")
                  [] found # NoRow /\ ~code_eq(found.code, body.code) ->
                        SmsReject(call, "SessionVerificationCodeMismatch")
                  [] OTHER -> [call EXCEPT !.pc = "update_signup_session"]]
    /\ UNCHANGED <<now, users, recovery_sessions, signup_sessions, sms_log, sms_failed>>
    /\ UNCHANGED nonSmsVars

\* lines 613-624
buyer_verify_phone_update(r) ==
    /\ smv[r].pc = "update_signup_session"
    /\ LET db_buyer_signup_session == [smv[r].db_session EXCEPT !.consumed = TRUE]
       IN /\ signup_sessions' = db_update_buyer_signup_session(db_buyer_signup_session)
          /\ smv' = [smv EXCEPT ![r].pc = "done", ![r].result = "Ok"]
    /\ UNCHANGED <<now, users, recovery_sessions, sms_log, sms_failed>>
    /\ UNCHANGED nonSmsVars

buyer_verify_recovery_code(r) ==
    \/ buyer_verify_recovery_code_get_session(r)
    \/ buyer_verify_recovery_code_get_user(r)
    \/ buyer_verify_recovery_code_update(r)

buyer_verify_phone(r) ==
    \/ buyer_verify_phone_get_session(r)
    \/ buyer_verify_phone_update(r)

----------------------------------------------------------------------------
(* buyer_signup *)

db_get_users_by_username(username) ==
    {i \in DOMAIN users : users[i].username = username}

DbUser_new(id, username, phone_number, encrypted_secret_key, user_type, wallet_id, user_status) ==
    [id |-> id, username |-> username, phone_number |-> phone_number,
     encrypted_secret_key |-> encrypted_secret_key, wallet_id |-> wallet_id,
     user_type |-> user_type, user_status |-> user_status]

db_insert_user(new_user) == Append(users, new_user)

\* the key pair the ledger generates for a request: fresh for every call
generate_implicit_account(r) ==
    [public_key |-> "pkG" \o ToString(r), secret_key |-> "skG" \o ToString(r)]

NoAccount == [public_key |-> NoVal, secret_key |-> NoVal]

\* the ledger's symmetric encryption of data under secret
aes_encrypt_data(secret, data) == "aes[" \o secret \o "](" \o data \o ")"

TxStatus == {"Succeeded", "Failed"}

\* variant: a Failed status is not looked at
create_account_failed_ignored(status) == FALSE

\* line 714: TxStatus::from_i32(status) == Some(TxStatus::Failed)
create_account_failed(status) == status = "Failed"

\* variant: the plaintext secret key is handed to the row
encrypted_secret_key_plain(cypher, implicit_account) == implicit_account.secret_key

\* line 763: Some(encrypted_data.cypher)
encrypted_secret_key_of(cypher, implicit_account) == cypher

BuyerSignupRequest ==
    { [username |-> u, session_id |-> i, secret |-> "passphrase"] :
        u \in Usernames, i \in 1..3 }

IdleSignupCall ==
    [pc |-> "idle", req_body |-> NoBody, db_session |-> NoRow,
     implicit_account |-> NoAccount, create_status |-> NoVal, cypher |-> NoVal,
     new_user_id |-> NoId, jwt_token |-> NoJwt, result |-> NoVal]

SignupReject(r, err) == [bsu EXCEPT ![r].pc = "done", ![r].result = err]

\* ctx.grpc_near_client.lock().await, lines 687, 701 and 746
buyer_signup_lock(r) ==
    /\ bsu[r].pc \in {"lock_generate", "lock_create_account", "lock_encrypt"}
    /\ grpc_lock = NoId
    /\ grpc_lock' = r
    /\ bsu' = [bsu EXCEPT ![r].pc =
                 CASE bsu[r].pc = "lock_generate" -> "generate_implicit_account"
                   [] bsu[r].pc = "lock_create_account" -> "create_account"
                   [] OTHER -> "aes_encrypt_data"]
    /\ UNCHANGED <<users, ledger_keys, pushed, signup_sessions>>
    /\ UNCHANGED nonSignupVars

\* lines 648-656: the username must not be in the users table
buyer_signup_check_username(r) ==
    /\ bsu[r].pc = "idle"
    /\ \E body \in BuyerSignupRequest :
         bsu' = [bsu EXCEPT ![r] =
            IF Cardinality(db_get_users_by_username(body.username)) > 0
            THEN [bsu[r] EXCEPT !.req_body = body, !.pc = "done",
                                !.result = "UnavailableUsername"]
            ELSE [bsu[r] EXCEPT !.req_body = body, !.pc = "get_session"]]
    /\ UNCHANGED <<users, ledger_keys, grpc_lock, pushed, signup_sessions>>
    /\ UNCHANGED nonSignupVars

\* lines 658-682: the signup session must exist and be verified
buyer_signup_get_session(r) ==
    /\ bsu[r].pc = "get_session"
    /\ LET found == db_get_buyer_signup_session_by_id(bsu[r].req_body.session_id)
       IN bsu' =
            CASE found = NoRow -> SignupReject(r, "SessionNotFoundForUuid")
              [] found # NoRow /\ ~found.consumed -> SignupReject(r, "UnverifiedUser")
              [] OTHER -> [bsu EXCEPT ![r].pc = "lock_generate", ![r].db_session = found]
    /\ UNCHANGED <<users, ledger_keys, grpc_lock, pushed, signup_sessions>>
    /\ UNCHANGED nonSignupVars

\* lines 686-694
buyer_signup_generate_implicit_account(r) ==
    /\ bsu[r].pc = "generate_implicit_account"
    /\ grpc_lock = r
    /\ grpc_lock' = NoId
    /\ \/ bsu' = SignupReject(r, "Grpc")
       \/ bsu' = [bsu EXCEPT ![r].pc = "lock_create_account",
                             ![r].implicit_account = generate_implicit_account(r)]
    /\ UNCHANGED <<users, ledger_keys, pushed, signup_sessions>>
    /\ UNCHANGED nonSignupVars

\* lines 696-721: the ledger creates the account unless the id is taken
buyer_signup_create_account(r) ==
    /\ bsu[r].pc = "create_account"
    /\ grpc_lock = r
    /\ grpc_lock' = NoId
    /\ LET user_account_id == near_account_id(bsu[r].req_body.username)
       IN \/ /\ bsu' = SignupReject(r, "Grpc")
             /\ UNCHANGED ledger_keys
          \/ \E status \in TxStatus :
               /\ status = "Succeeded" => ledger_keys[user_account_id] = {}
               /\ ledger_keys' =
                    IF status = "Succeeded"
                    THEN [ledger_keys EXCEPT ![user_account_id] =
                            {bsu[r].implicit_account.public_key}]
                    ELSE ledger_keys
               /\ bsu' = [bsu EXCEPT ![r] =
                    IF create_account_failed(status)
                    THEN [bsu[r] EXCEPT !.create_status = status, !.pc = "done",
                                        !.result = "WalletCreationFailed"]
                    ELSE [bsu[r] EXCEPT !.create_status = status,
                                        !.pc = "pusher_account_created"]]
    /\ UNCHANGED <<users, pushed, signup_sessions>>
    /\ UNCHANGED nonSignupVars

\* lines 723-742: AccountCreated, then AccountFunded, over the push notifier
buyer_signup_pusher_send(r) ==
    /\ bsu[r].pc \in {"pusher_account_created", "pusher_account_funded"}
    /\ LET event == IF bsu[r].pc = "pusher_account_created"
                    THEN "AccountCreated" ELSE "AccountFunded"
       IN \/ /\ bsu' = SignupReject(r, "Pusher")
             /\ UNCHANGED pushed
          \/ /\ pushed' = pushed \cup
                   {[channel |-> "Account", event |-> event,
                     payload |-> near_account_id(bsu[r].req_body.username)]}
             /\ bsu' = [bsu EXCEPT ![r].pc =
                          IF bsu[r].pc = "pusher_account_created"
                          THEN "pusher_account_funded" ELSE "lock_encrypt"]
    /\ UNCHANGED <<users, ledger_keys, grpc_lock, signup_sessions>>
    /\ UNCHANGED nonSignupVars

\* lines 744-753
buyer_signup_aes_encrypt_data(r) ==
    /\ bsu[r].pc = "aes_encrypt_data"
    /\ grpc_lock = r
    /\ grpc_lock' = NoId
    /\ \/ bsu' = SignupReject(r, "Grpc")
       \/ bsu' = [bsu EXCEPT ![r].pc = "insert_user",
                             ![r].cypher =
                                aes_encrypt_data(bsu[r].req_body.secret,
                                                 bsu[r].implicit_account.secret_key)]
    /\ UNCHANGED <<users, ledger_keys, pushed, signup_sessions>>
    /\ UNCHANGED nonSignupVars

\* lines 755-782: the user row, then the credential
buyer_signup_insert_user(r) ==
    /\ bsu[r].pc = "insert_user"
    /\ LET new_db_user ==
             DbUser_new(Len(users) + 1, bsu[r].req_body.username,
                        bsu[r].db_session.phone_number,
                        encrypted_secret_key_of(bsu[r].cypher, bsu[r].implicit_account),
                        "Buyer", near_account_id(bsu[r].req_body.username),
                        "PhoneVerified")
       IN /\ users' = db_insert_user(new_db_user)
          /\ bsu' = [bsu EXCEPT ![r].pc = "done", ![r].result = "Ok",
                                ![r].new_user_id = new_db_user.id,
                                ![r].jwt_token = create_jwt(uuid_to_string(new_db_user.id), "Buyer")]
    /\ UNCHANGED <<ledger_keys, grpc_lock, pushed, signup_sessions>>
    /\ UNCHANGED nonSignupVars

buyer_signup(r) ==
    \/ buyer_signup_check_username(r)
    \/ buyer_signup_get_session(r)
    \/ buyer_signup_lock(r)
    \/ buyer_signup_generate_implicit_account(r)
    \/ buyer_signup_create_account(r)
    \/ buyer_signup_pusher_send(r)
    \/ buyer_signup_aes_encrypt_data(r)
    \/ buyer_signup_insert_user(r)

----------------------------------------------------------------------------
(* The clock *)

Tick ==
    /\ ticks < MaxTicks
    /\ \E d \in TimeSteps : now' = now + d
    /\ ticks' = ticks + 1
    /\ UNCHANGED <<sessions, users, ledger_keys, grpc_lock, pushed, vlc>>
    /\ UNCHANGED nonLoginVars

----------------------------------------------------------------------------
(* The authorization gate: with_auth(role set) runs authorize on the headers *)

\* decode::<Claims> under Validation::new(HS512): the signature must verify under
\* JWT_SECRET, the claims must deserialize and the expiry must not have passed
Leeways == {0, 60}

decode(jwt) ==
    /\ jwt.key = JwtSecret
    /\ jwt.well_formed
    /\ jwt.exp >= now - jwt_leeway

\* the Authorization header values of the model
RoleStrings == {"buyer", "seller", "admin", "superadmin", "BUYER", "root"}
SubjectStrings == {uuid_to_string(1), "not-a-uuid"}
SigningKeys == {JwtSecret, "forged"}

Tokens ==
    { [sub |-> sub, role |-> role, exp |-> exp, key |-> key, well_formed |-> TRUE] :
        sub \in SubjectStrings, role \in RoleStrings,
        exp \in {now - JwtLifetimeSecs, now + JwtLifetimeSecs}, key \in SigningKeys }
    \cup { [sub |-> uuid_to_string(1), role |-> "buyer", exp |-> now + JwtLifetimeSecs,
            key |-> JwtSecret, well_formed |-> FALSE] }

NoToken == [sub |-> NoVal, role |-> NoVal, exp |-> 0, key |-> NoVal, well_formed |-> FALSE]

HeaderMaps ==
    { [authorization |-> kind, jwt |-> NoToken] : kind \in {"absent", "not_utf8"} }
    \cup { [authorization |-> scheme, jwt |-> jwt] :
              scheme \in {"Basic ", "Bearer "}, jwt \in Tokens }

AuthOk(user_id) == [ok |-> TRUE, err |-> NoVal, user_id |-> user_id]
AuthErr(err) == [ok |-> FALSE, err |-> err, user_id |-> NoId]

\* NoVal stands for the Ok(jwt) branch
jwt_from_header(headers) ==
    IF headers.authorization = "absent" THEN "NoAuthHeaderError"
    ELSE IF headers.authorization = "not_utf8" THEN "NoAuthHeaderError"
    ELSE IF headers.authorization # "Bearer " THEN "InvalidAuthHeaderError"
    ELSE NoVal

\* variant: a role hierarchy, a higher role passes a gate that lists a lower one
role_rank(role) ==
    CASE role = "Buyer" -> 1
      [] role = "Seller" -> 2
      [] role = "Admin" -> 3
      [] role = "SuperAdmin" -> 4

role_listed_hierarchy(roles, token_role) ==
    \E role \in roles : role_rank(token_role) >= role_rank(role)

\* roles.iter().find(|&role| role.eq(&token_role))
role_listed(roles, token_role) ==
    \E role \in roles : role = token_role

\* variant: the subject id is parsed before the role is looked up in the list
authorize_subject_first(roles, headers) ==
    IF jwt_from_header(headers) # NoVal THEN AuthErr(jwt_from_header(headers))
    ELSE IF ~decode(headers.jwt) THEN AuthErr("JWTTokenError")
    ELSE LET token_role == Role_try_from_str(headers.jwt.role)
             user_id == Uuid_parse_str(headers.jwt.sub)
         IN IF token_role = NoVal THEN AuthErr("BadEncodedUserRole")
            ELSE IF user_id = NoId THEN AuthErr("UnparsableUuid")
            ELSE IF ~role_listed(roles, token_role) THEN AuthErr("NoPermissionError")
            ELSE AuthOk(user_id)

\* authorize
authorize(roles, headers) ==
    IF jwt_from_header(headers) # NoVal THEN AuthErr(jwt_from_header(headers))
    ELSE IF ~decode(headers.jwt) THEN AuthErr("JWTTokenError")
    ELSE LET token_role == Role_try_from_str(headers.jwt.role)
         IN IF token_role = NoVal THEN AuthErr("BadEncodedUserRole")
            ELSE IF ~role_listed(roles, token_role) THEN AuthErr("NoPermissionError")
            ELSE LET user_id == Uuid_parse_str(headers.jwt.sub)
                 IN IF user_id = NoId THEN AuthErr("UnparsableUuid")
                    ELSE AuthOk(user_id)

IdleAuth ==
    [called |-> FALSE, at |-> 0, roles |-> {},
     headers |-> [authorization |-> "absent", jwt |-> NoToken], result |-> AuthErr(NoVal)]

\* a request arrives at a route gated by with_auth(roles)
with_auth ==
    /\ \E roles \in SUBSET Roles, headers \in HeaderMaps :
         az' = [called |-> TRUE, at |-> now, roles |-> roles, headers |-> headers,
                result |-> authorize(roles, headers)]
    /\ UNCHANGED <<now, ticks, jwt_leeway, issued, auxVars>>
    /\ UNCHANGED nonAuthVars

MaxIssued == 1
MaxAuthTicks == 4
AuthTimeSteps == {1, 60, 3599}

\* a handler hands a token to a user: create_jwt(&db_user.id.to_string(), &role)
issue_jwt ==
    /\ Cardinality(issued) < MaxIssued
    /\ \E i \in 1..Len(users), role \in Roles :
         issued' = issued \cup
            { [jwt |-> create_jwt(uuid_to_string(users[i].id), role),
               uid |-> users[i].id, role |-> role, at |-> now] }
    /\ UNCHANGED <<now, ticks, az, jwt_leeway, auxVars>>
    /\ UNCHANGED nonAuthVars

\* the clock advances between the issue of a token and its presentation
AuthTick ==
    /\ ticks < MaxAuthTicks
    /\ \E d \in AuthTimeSteps : now' = now + d
    /\ ticks' = ticks + 1
    /\ UNCHANGED <<az, jwt_leeway, issued, auxVars>>
    /\ UNCHANGED nonAuthVars

\* a request presents a token it was handed at a route gated by with_auth(roles)
with_auth_issued ==
    /\ \E roles \in SUBSET Roles, t \in issued :
         LET headers == [authorization |-> "Bearer ", jwt |-> t.jwt]
         IN az' = [called |-> TRUE, at |-> now, roles |-> roles, headers |-> headers,
                   result |-> authorize(roles, headers)]
    /\ UNCHANGED <<now, ticks, jwt_leeway, issued, auxVars>>
    /\ UNCHANGED nonAuthVars

----------------------------------------------------------------------------
(* The credential-protected routes: private GraphQL and ticket redemption *)

NumProtectedCalls == 2
ProtectedCalls == 1..NumProtectedCalls

\* rows of table events and table tickets: tickets 1 and 2 of event 1, ticket 3 of event 2
InitEvents == << [id |-> 1, event_name |-> "Concert", event_status |-> "Draft",
                  created_by_user |-> 2],
                 [id |-> 2, event_name |-> "Fair", event_status |-> "Draft",
                  created_by_user |-> 2] >>
InitTickets == << [id |-> 1, event_id |-> 1], [id |-> 2, event_id |-> 1],
                  [id |-> 3, event_id |-> 2] >>

ReservationCodes == {"111111", "222222"}

\* the role list of graphql_private_route and of the two ticket-redemption routes
ProtectedRouteRoles == {"Admin", "Buyer", "Seller", "SuperAdmin"}
ProtectedRoutes ==
    {"graphql_private", "event_ticket_get_verification_code",
     "get_event_from_verification_code"}

\* request bodies: EventTicketGetVerificationCodeRequest (event 9 and ticket 9 are
\* not in the store) and GetEventFromVerificationCodeRequest
ReservationLists ==
    { <<>>, <<uuid_to_string(1)>>, <<uuid_to_string(1), uuid_to_string(2)>>,
      <<uuid_to_string(1), uuid_to_string(1)>>, <<uuid_to_string(2), uuid_to_string(3)>>,
      <<uuid_to_string(2), uuid_to_string(9)>> }

ProtectedRequests ==
    { [route |-> "event_ticket_get_verification_code", event_id |-> e, reservations |-> l,
       verification_code |-> NoVal] :
          e \in {uuid_to_string(1), uuid_to_string(9)}, l \in ReservationLists }
    \cup { [route |-> "get_event_from_verification_code", event_id |-> NoVal,
            reservations |-> <<>>, verification_code |-> c] : c \in ReservationCodes }
    \cup { [route |-> "graphql_private", event_id |-> NoVal, reservations |-> <<>>,
            verification_code |-> NoVal] }

\* Authorization headers of the requests: a Buyer token of user 1, a Seller token of
\* user 2, a token signed with another key, no header
ProtectedHeaders ==
    { [authorization |-> "Bearer ", jwt |-> create_jwt(uuid_to_string(1), "Buyer")],
      [authorization |-> "Bearer ", jwt |-> create_jwt(uuid_to_string(2), "Seller")],
      [authorization |-> "Bearer ",
       jwt |-> [create_jwt(uuid_to_string(1), "Buyer") EXCEPT !.key = "forged"]],
      [authorization |-> "absent", jwt |-> NoToken] }

PathRoles == {"buyer", "seller"}

IdleProtectedCall ==
    [pc |-> "idle", req_body |-> [route |-> NoVal], headers |-> [authorization |-> "absent"],
     path_role |-> NoVal, auth |-> AuthErr(NoVal), user_id |-> NoId,
     verification_code |-> NoVal, event_id |-> NoId, ticket_id |-> NoId, idx |-> 0,
     created |-> {}, handler_steps |-> 0, acting_user |-> NoId, result |-> NoVal]

ProtectedReturn(r, res) ==
    [prq EXCEPT ![r].pc = "done", ![r].result = res,
                ![r].handler_steps = prq[r].handler_steps + 1]

ProtectedGoto(r, pc) ==
    [prq EXCEPT ![r].pc = pc, ![r].handler_steps = prq[r].handler_steps + 1]

\* variant: the handler is entered whatever authorize returned
gate_passed_always(auth) == TRUE

\* .and(with_auth(..)).and_then(handler): the handler runs on Ok(user_id) only
gate_passed(auth) == auth.ok

\* the filter chain of a protected route up to and_then(handler)
protected_with_auth(r) ==
    /\ prq[r].pc = "idle"
    /\ \E req_body \in ProtectedRequests, headers \in ProtectedHeaders, role \in PathRoles :
         LET auth == authorize(ProtectedRouteRoles, headers)
         IN prq' = [prq EXCEPT ![r].req_body = req_body, ![r].headers = headers,
                               ![r].path_role = role, ![r].auth = auth,
                               ![r].user_id = auth.user_id,
                               ![r].pc = IF gate_passed(auth) THEN "handler" ELSE "done",
                               ![r].result = IF gate_passed(auth) THEN NoVal ELSE auth.err]
    /\ UNCHANGED <<events, tickets, ticket_reservations, ctx_user_id>>
    /\ UNCHANGED nonReserveVars

db_get_event_by_id(id) == QueryOne(events, {i \in 1..Len(events) : events[i].id = id})
db_get_ticket_by_id(id) == QueryOne(tickets, {i \in 1..Len(tickets) : tickets[i].id = id})

db_get_ticket_reservations_by_user_id(user_id) ==
    { ticket_reservations[i] :
        i \in {j \in 1..Len(ticket_reservations) : ticket_reservations[j].user_id = user_id} }

db_get_ticket_reservations_by_code(verification_code) ==
    { ticket_reservations[i] :
        i \in {j \in 1..Len(ticket_reservations) :
                 ticket_reservations[j].verification_code = verification_code} }

\* variant: the event id and the ticket id change places in the row
DbTicketReservation_new_swapped(id, created_at, verification_code, event_id, ticket_id, user_id) ==
    [id |-> id, created_at |-> created_at, verification_code |-> verification_code,
     event_id |-> ticket_id, ticket_id |-> event_id, user_id |-> user_id]

\* DbTicketReservation::new
DbTicketReservation_new(id, created_at, verification_code, event_id, ticket_id, user_id) ==
    [id |-> id, created_at |-> created_at, verification_code |-> verification_code,
     event_id |-> event_id, ticket_id |-> ticket_id, user_id |-> user_id]

db_insert_ticket_reservation(row) == Append(ticket_reservations, row)

\* the path role check at the head of both ticket-redemption handlers;
\* NoVal stands for a passed check
only_buyer(path_role) ==
    IF Role_try_from_str(path_role) = NoVal THEN "UnallowedUserRole"
    ELSE IF Role_try_from_str(path_role) # "Buyer" THEN "OnlyBuyer"
    ELSE NoVal

\* event_ticket_get_verification_code up to db_get_event_by_id
event_ticket_get_verification_code_get_event(r) ==
    /\ prq[r].pc = "handler"
    /\ prq[r].req_body.route = "event_ticket_get_verification_code"
    /\ \E verification_code \in ReservationCodes :
         LET event_id == Uuid_parse_str(prq[r].req_body.event_id)
             db_event == db_get_event_by_id(event_id)
         IN prq' =
              IF only_buyer(prq[r].path_role) # NoVal
                THEN ProtectedReturn(r, only_buyer(prq[r].path_role))
              ELSE IF event_id = NoId THEN ProtectedReturn(r, "UnparsableUuid")
              ELSE IF db_event = NoRow THEN ProtectedReturn(r, "NoExistEventUuid")
              ELSE IF prq[r].req_body.reservations = <<>>
                THEN [ProtectedReturn(r, "Ok") EXCEPT
                        ![r].verification_code = verification_code,
                        ![r].event_id = db_event.id]
              ELSE [ProtectedGoto(r, "get_ticket") EXCEPT
                        ![r].verification_code = verification_code,
                        ![r].event_id = db_event.id, ![r].idx = 1]
    /\ UNCHANGED <<events, tickets, ticket_reservations, ctx_user_id>>
    /\ UNCHANGED nonReserveVars

\* loop body: parse the ticket id, db_get_ticket_by_id, event check
event_ticket_get_verification_code_get_ticket(r) ==
    /\ prq[r].pc = "get_ticket"
    /\ LET ticket_id == Uuid_parse_str(prq[r].req_body.reservations[prq[r].idx])
           db_ticket == db_get_ticket_by_id(ticket_id)
       IN prq' =
            IF ticket_id = NoId THEN ProtectedReturn(r, "UnparsableUuid")
            ELSE IF db_ticket = NoRow THEN ProtectedReturn(r, "NoExistTicketUuid")
            ELSE IF db_ticket.event_id # prq[r].event_id
              THEN ProtectedReturn(r, "TicketEventMismatch")
            ELSE [ProtectedGoto(r, "get_reservations") EXCEPT ![r].ticket_id = ticket_id]
    /\ UNCHANGED <<events, tickets, ticket_reservations, ctx_user_id>>
    /\ UNCHANGED nonReserveVars

\* loop body: db_get_ticket_reservations_by_user_id and the already-reserved check
event_ticket_get_verification_code_get_reservations(r) ==
    /\ prq[r].pc = "get_reservations"
    /\ LET already ==
             \E reservation \in db_get_ticket_reservations_by_user_id(prq[r].user_id) :
                 /\ reservation.ticket_id = prq[r].ticket_id
                 /\ reservation.event_id = prq[r].event_id
                 /\ reservation.user_id = prq[r].user_id
                 /\ reservation.verification_code = prq[r].verification_code
       IN prq' = IF already THEN ProtectedReturn(r, "AlreadyReservedForUser")
                 ELSE ProtectedGoto(r, "insert")
    /\ UNCHANGED <<events, tickets, ticket_reservations, ctx_user_id>>
    /\ UNCHANGED nonReserveVars

\* loop body: DbTicketReservation::new and db_insert_ticket_reservation; after the
\* last reservation the code is returned
event_ticket_get_verification_code_insert(r) ==
    /\ prq[r].pc = "insert"
    /\ LET new_db_ticket_reservation ==
             DbTicketReservation_new(Len(ticket_reservations) + 1, sql_timestamp(0),
                                     prq[r].verification_code, prq[r].event_id,
                                     prq[r].ticket_id, prq[r].user_id)
           last == prq[r].idx = Len(prq[r].req_body.reservations)
       IN /\ ticket_reservations' = db_insert_ticket_reservation(new_db_ticket_reservation)
          /\ prq' = [ (IF last THEN ProtectedReturn(r, "Ok") ELSE ProtectedGoto(r, "get_ticket"))
                      EXCEPT ![r].created = prq[r].created \cup {new_db_ticket_reservation.id},
                             ![r].idx = IF last THEN prq[r].idx ELSE prq[r].idx + 1 ]
    /\ UNCHANGED <<events, tickets, ctx_user_id>>
    /\ UNCHANGED nonReserveVars

event_ticket_get_verification_code(r) ==
    \/ event_ticket_get_verification_code_get_event(r)
    \/ event_ticket_get_verification_code_get_ticket(r)
    \/ event_ticket_get_verification_code_get_reservations(r)
    \/ event_ticket_get_verification_code_insert(r)

\* variant: the reservations of the code are not compared with the calling user
get_event_from_verification_code_get_reservations_any_user(r) ==
    /\ prq[r].pc = "handler"
    /\ prq[r].req_body.route = "get_event_from_verification_code"
    /\ LET db_ticket_reservations ==
             db_get_ticket_reservations_by_code(prq[r].req_body.verification_code)
           first == CHOOSE i \in 1..Len(ticket_reservations) :
                       /\ ticket_reservations[i] \in db_ticket_reservations
                       /\ \A j \in 1..(i - 1) : ticket_reservations[j] \notin db_ticket_reservations
           event_id == ticket_reservations[first].event_id
       IN prq' =
            IF only_buyer(prq[r].path_role) # NoVal
              THEN ProtectedReturn(r, only_buyer(prq[r].path_role))
            ELSE IF db_ticket_reservations = {}
              THEN ProtectedReturn(r, "NoTicketReservationsForCode")
            ELSE IF \E reservation \in db_ticket_reservations : reservation.event_id # event_id
              THEN ProtectedReturn(r, "TicketEventMismatch")
            ELSE [ProtectedGoto(r, "get_event") EXCEPT ![r].event_id = event_id]
    /\ UNCHANGED <<events, tickets, ticket_reservations, ctx_user_id>>
    /\ UNCHANGED nonReserveVars

\* get_event_from_verification_code up to the checks on the reservations of the code
get_event_from_verification_code_get_reservations(r) ==
    /\ prq[r].pc = "handler"
    /\ prq[r].req_body.route = "get_event_from_verification_code"
    /\ LET db_ticket_reservations ==
             db_get_ticket_reservations_by_code(prq[r].req_body.verification_code)
           first == CHOOSE i \in 1..Len(ticket_reservations) :
                       /\ ticket_reservations[i] \in db_ticket_reservations
                       /\ \A j \in 1..(i - 1) : ticket_reservations[j] \notin db_ticket_reservations
           event_id == ticket_reservations[first].event_id
       IN prq' =
            IF only_buyer(prq[r].path_role) # NoVal
              THEN ProtectedReturn(r, only_buyer(prq[r].path_role))
            ELSE IF db_ticket_reservations = {}
              THEN ProtectedReturn(r, "NoTicketReservationsForCode")
            ELSE IF \E reservation \in db_ticket_reservations :
                      reservation.user_id # prq[r].user_id
              THEN ProtectedReturn(r, "WrongUserReserved")
            ELSE IF \E reservation \in db_ticket_reservations : reservation.event_id # event_id
              THEN ProtectedReturn(r, "TicketEventMismatch")
            ELSE [ProtectedGoto(r, "get_event") EXCEPT ![r].event_id = event_id]
    /\ UNCHANGED <<events, tickets, ticket_reservations, ctx_user_id>>
    /\ UNCHANGED nonReserveVars

\* db_get_event_by_id, then db_get_tickets_by_event_id and the reply
get_event_from_verification_code_get_event(r) ==
    /\ prq[r].pc = "get_event"
    /\ prq' = IF db_get_event_by_id(prq[r].event_id) = NoRow
              THEN ProtectedReturn(r, "NoExistEventUuid")
              ELSE ProtectedGoto(r, "get_tickets")
    /\ UNCHANGED <<events, tickets, ticket_reservations, ctx_user_id>>
    /\ UNCHANGED nonReserveVars

get_event_from_verification_code_get_tickets(r) ==
    /\ prq[r].pc = "get_tickets"
    /\ prq' = ProtectedReturn(r, "Ok")
    /\ UNCHANGED <<events, tickets, ticket_reservations, ctx_user_id>>
    /\ UNCHANGED nonReserveVars

get_event_from_verification_code(r) ==
    \/ get_event_from_verification_code_get_reservations(r)
    \/ get_event_from_verification_code_get_event(r)
    \/ get_event_from_verification_code_get_tickets(r)

\* graphql_private: the authenticated user id is stored into the shared context
graphql_private_set_user_id(r) ==
    /\ prq[r].pc = "handler"
    /\ prq[r].req_body.route = "graphql_private"
    /\ ctx_user_id' = prq[r].user_id
    /\ prq' = ProtectedGoto(r, "execute")
    /\ UNCHANGED <<events, tickets, ticket_reservations>>
    /\ UNCHANGED nonReserveVars

\* req.execute(&schema, &ctx): the resolvers read the user id from the context
graphql_private_execute(r) ==
    /\ prq[r].pc = "execute"
    /\ prq' = [ProtectedReturn(r, "Ok") EXCEPT ![r].acting_user = ctx_user_id]
    /\ UNCHANGED <<events, tickets, ticket_reservations, ctx_user_id>>
    /\ UNCHANGED nonReserveVars

graphql_private(r) ==
    \/ graphql_private_set_user_id(r)
    \/ graphql_private_execute(r)

----------------------------------------------------------------------------
(* The shared ledger client: Context.grpc_near_client behind a tokio Mutex *)

NumLedgerCalls == 3
LedgerCalls == 1..NumLedgerCalls

\* the await points of each handler that uses the ledger client, in program
\* order: "db" a store query, "rpc" a lock().await followed by one call on the
\* guard, "push" a notifier send
LedgerHandlers ==
    {"check_username", "signin_known_wallet", "signin_new_wallet", "buyer_signup",
     "verify_login_code", "mint_nfts"}

HandlerSteps(handler) ==
    CASE handler = "check_username" -> <<"db", "rpc">>
      [] handler = "signin_known_wallet" -> <<"db", "rpc", "rpc">>
      [] handler = "signin_new_wallet" -> <<"db", "db", "rpc", "rpc", "db">>
      [] handler = "buyer_signup" -> <<"db", "db", "rpc", "rpc", "push", "push", "rpc", "db">>
      [] handler = "verify_login_code" -> <<"db", "rpc", "db", "rpc", "db", "push">>
      [] handler = "mint_nfts" -> <<"db", "db", "db", "rpc", "db">>

IdleLedgerCall ==
    [pc |-> "idle", handler |-> NoVal, step |-> 0, phase |-> "step", acquired |-> 0,
     result |-> NoVal]

\* the handler goes on to its next await point, or returns Ok after the last
LedgerAdvance(r) ==
    IF lh[r].step = Len(HandlerSteps(lh[r].handler))
    THEN [lh EXCEPT ![r].pc = "done", ![r].phase = "step", ![r].result = "Ok"]
    ELSE [lh EXCEPT ![r].step = lh[r].step + 1, ![r].phase = "step"]

LedgerFail(r, err) ==
    [lh EXCEPT ![r].pc = "done", ![r].phase = "step", ![r].result = err]

\* variant: lock() hands out the client while another guard is alive
mutex_free_always(lock) == TRUE

\* tokio::sync::Mutex::lock resolves when no guard is alive
mutex_free(lock) == lock = NoId

\* variant: the guard outlives an RPC error
guard_after_error_kept(r) == r

\* `?` on the RPC result leaves the block and drops the guard
guard_after_error(r) == NoId

ledger_handler_start(r) ==
    /\ lh[r].pc = "idle"
    /\ \E handler \in LedgerHandlers :
         lh' = [lh EXCEPT ![r].pc = "run", ![r].handler = handler, ![r].step = 1]
    /\ UNCHANGED <<grpc_lock, rpc_in_flight>>
    /\ UNCHANGED nonLedgerVars

\* an await on the store or on the notifier returns, with a value or an error
ledger_handler_await(r) ==
    /\ lh[r].pc = "run"
    /\ lh[r].phase = "step"
    /\ HandlerSteps(lh[r].handler)[lh[r].step] \in {"db", "push"}
    /\ \E ok \in BOOLEAN :
         lh' = IF ok THEN LedgerAdvance(r)
               ELSE LedgerFail(r, IF HandlerSteps(lh[r].handler)[lh[r].step] = "db"
                                  THEN "Postgres" ELSE "Pusher")
    /\ UNCHANGED <<grpc_lock, rpc_in_flight>>
    /\ UNCHANGED nonLedgerVars

\* ctx.grpc_near_client.lock().await resolves and the call on the guard starts
ledger_handler_lock(r) ==
    /\ lh[r].pc = "run"
    /\ lh[r].phase = "step"
    /\ HandlerSteps(lh[r].handler)[lh[r].step] = "rpc"
    /\ mutex_free(grpc_lock)
    /\ grpc_lock' = r
    /\ rpc_in_flight' = rpc_in_flight \cup {r}
    /\ lh' = [lh EXCEPT ![r].phase = "rpc", ![r].acquired = lh[r].acquired + 1]
    /\ UNCHANGED nonLedgerVars

\* the call returns: drop(lock) after Ok, the guard dropped by `?` after Err
ledger_handler_rpc_return(r) ==
    /\ lh[r].pc = "run"
    /\ lh[r].phase = "rpc"
    /\ rpc_in_flight' = rpc_in_flight \ {r}
    /\ \E ok \in BOOLEAN :
         /\ lh' = IF ok THEN LedgerAdvance(r) ELSE LedgerFail(r, "Grpc")
         /\ grpc_lock' = IF ok THEN NoId ELSE guard_after_error(r)
    /\ UNCHANGED nonLedgerVars

----------------------------------------------------------------------------
(* Role and its two encodings *)

\* the i16 values read from the user_type column and the strings read from a
\* role claim or a path segment
RoleInts == {-1, 0, 1, 2, 3, 4, 5, 32767}
RoleNames ==
    {"buyer", "seller", "admin", "superadmin", "BUYER", "Admin", "SuperAdmin", "SELLER",
     "root", "ROOT", "super_admin", ""}

IdleRoleConversion ==
    [called |-> FALSE, role |-> NoVal, n |-> 0, str |-> NoVal, as_i16 |-> 0,
     from_as_i16 |-> NoVal, from_n |-> NoVal, as_string |-> NoVal,
     from_as_string |-> NoVal, from_str |-> NoVal]

\* i16::from(role), role.to_string(), Role::try_from(i16), Role::try_from(&str)
role_conversions ==
    /\ \E role \in Roles, n \in RoleInts, str \in RoleNames :
         rc' = [called |-> TRUE, role |-> role, n |-> n, str |-> str,
                as_i16 |-> Role_to_i16(role),
                from_as_i16 |-> Role_try_from_i16(Role_to_i16(role)),
                from_n |-> Role_try_from_i16(n),
                as_string |-> Role_to_string(role),
                from_as_string |-> Role_try_from_str(Role_to_string(role)),
                from_str |-> Role_try_from_str(str)]
    /\ UNCHANGED <<rb, asset_files, af, sgn, gm>>
    /\ UNCHANGED nonAuxVars

----------------------------------------------------------------------------
(* Failures at the request boundary: handle_rejection and the GraphQL reply *)

MaxResponses == 2

\* the text of an underlying error (tokio_postgres, tonic, pusher, twilio, argon2)
ErrorTexts == {"connection closed", "deadline exceeded"}

\* the request value an error variant carries (a code or a session id)
RequestValues == {"111111", "uuid-1"}

\* what went wrong, the call site that met it, and the text or value it came with
RestFailures ==
    [kind : {"store"}, text : ErrorTexts,
     site : {"db_insert_session", "db_get_user_by_username",
             "db_get_buyer_recovery_session_by_id", "db_get_session_by_login_code"}]
    \cup [kind : {"ledger_rpc"}, site : {"grpc_near_client"}, text : ErrorTexts]
    \cup [kind : {"notifier"}, site : {"pusher_client"}, text : ErrorTexts]
    \cup [kind : {"sms"}, site : {"twilio_client"}, text : ErrorTexts]
    \cup [kind : {"password_hash"}, site : {"verify_password"}, text : ErrorTexts]
    \cup [kind : {"token_creation"}, site : {"create_jwt"}, text : ErrorTexts]
    \cup [kind : {"session_not_found"}, text : RequestValues,
          site : {"verify_login_code", "buyer_verify_recovery_code"}]
    \cup [kind : {"session_used", "session_expired"}, site : {"verify_login_code"},
          text : RequestValues]
    \cup [kind : {"code_mismatch"}, text : RequestValues,
          site : {"buyer_verify_recovery_code", "buyer_verify_phone"}]
    \cup [kind : {"no_permission"}, site : {"authorize"}, text : {NoVal}]

\* the store and the ledger failures a resolver of the GraphQL schema meets
GqlFailures ==
    [kind : {"store"}, site : {"db_update_event"}, text : ErrorTexts]
    \cup [kind : {"ledger_rpc"}, site : {"grpc_near_client"}, text : ErrorTexts]

\* the map_err closure (or the match arm) at the call site: the Error handed to
\* reject::custom
map_err(f) ==
    CASE f.kind = "store" /\ f.site = "db_insert_session" ->
            [variant |-> "Postgres", inner |-> NoVal, arg |-> f.text]
      [] f.kind = "store" /\ f.site = "db_get_user_by_username" ->
            [variant |-> "User", inner |-> "UserNotFound", arg |-> NoVal]
      [] f.kind = "store" /\ f.site = "db_get_buyer_recovery_session_by_id" ->
            [variant |-> "Session", inner |-> "SessionNotFoundForUuid", arg |-> "uuid-1"]
      [] f.kind = "store" /\ f.site = "db_get_session_by_login_code" ->
            [variant |-> "Session", inner |-> "NoSessionForToken", arg |-> "111111"]
      [] f.kind = "ledger_rpc" -> [variant |-> "Grpc", inner |-> NoVal, arg |-> f.text]
      [] f.kind = "notifier" -> [variant |-> "Pusher", inner |-> NoVal, arg |-> f.text]
      [] f.kind = "sms" -> [variant |-> "Twilio", inner |-> NoVal, arg |-> f.text]
      [] f.kind = "password_hash" -> [variant |-> "Hash", inner |-> NoVal, arg |-> f.text]
      [] f.kind = "token_creation" ->
            [variant |-> "Auth", inner |-> "JWTTokenCreationError", arg |-> NoVal]
      [] f.kind = "session_not_found" /\ f.site = "verify_login_code" ->
            [variant |-> "Session", inner |-> "NoSessionForToken", arg |-> f.text]
      [] f.kind = "session_not_found" ->
            [variant |-> "Session", inner |-> "SessionNotFoundForUuid", arg |-> f.text]
      [] f.kind = "session_used" ->
            [variant |-> "Session", inner |-> "UsedSession", arg |-> f.text]
      [] f.kind = "session_expired" ->
            [variant |-> "Session", inner |-> "ExpiredSession", arg |-> f.text]
      [] f.kind = "code_mismatch" /\ f.site = "buyer_verify_recovery_code" ->
            [variant |-> "Session", inner |-> "SessionRecoveryCodeMismatch", arg |-> f.text]
      [] f.kind = "code_mismatch" ->
            [variant |-> "Session", inner |-> "SessionVerificationCodeMismatch",
             arg |-> f.text]
      [] OTHER -> [variant |-> "Auth", inner |-> "NoPermissionError", arg |-> NoVal]

\* the displaydoc text of an AuthError, UserError or SessionError
error_to_string(inner, arg) ==
    CASE inner = "WrongCredentialsError" -> <<"Wrong Credentials", NoVal>>
      [] inner = "JWTTokenError" -> <<"JWT Token not valid", NoVal>>
      [] inner = "NoPermissionError" -> <<"No Permission", NoVal>>
      [] inner = "UserNotFound" -> <<"User not found", NoVal>>
      [] inner = "SessionVerificationCodeMismatch" ->
            <<"Verification code for the session is incorrect: ", arg>>
      [] inner = "SessionRecoveryCodeMismatch" ->
            <<"Recovery code for the session is incorrect: ", arg>>
      [] inner = "SessionNotFoundForUuid" -> <<"No session found for uuid: ", arg>>
      [] inner = "NoSessionForToken" -> <<"No session for token: ", arg>>
      [] inner = "UsedSession" -> <<"Used session for token: ", arg>>
      [] inner = "ExpiredSession" -> <<"Expired session for token: ", arg>>
      [] OTHER -> <<inner, arg>>

InternalServerError == [status |-> 500, message |-> <<"Internal Server Error", NoVal>>]

\* the branch of handle_rejection the rejection falls into
handle_rejection(err) ==
    CASE err.variant = "Auth" /\ err.inner = "WrongCredentialsError" ->
            [status |-> 403, message |-> error_to_string(err.inner, err.arg)]
      [] err.variant = "Auth" /\ err.inner \in {"NoPermissionError", "JWTTokenError", "BadEncodedUserRole"} ->
            [status |-> 401, message |-> error_to_string(err.inner, err.arg)]
      [] err.variant = "Auth" /\ err.inner = "JWTTokenCreationError" -> InternalServerError
      [] err.variant = "Auth" ->
            [status |-> 400, message |-> error_to_string(err.inner, err.arg)]
      [] err.variant = "Session" ->
            [status |-> 403, message |-> error_to_string(err.inner, err.arg)]
      [] err.variant \in {"Postgres", "Grpc", "Pusher", "Twilio", "Hash"} ->
            InternalServerError
      [] err.variant \in {"User", "Event", "Ticket"} ->
            [status |-> 403, message |-> error_to_string(err.inner, err.arg)]
      [] OTHER -> InternalServerError

\* GqlError::Database and GqlError::Grpc as a juniper FieldError: a fixed message
\* and the text of the underlying error under "error"
into_field_error(f) ==
    IF f.kind = "store"
    THEN [message |-> <<"Database error", NoVal>>, type |-> "DATABASE", error |-> f.text]
    ELSE [message |-> <<"Grpc Error", NoVal>>, type |-> "INTERNAL", error |-> f.text]

\* a REST handler fails: the rejection reaches handle_rejection through recover
rest_request_fails ==
    /\ Len(rb) < MaxResponses
    /\ \E f \in RestFailures :
         LET reply == handle_rejection(map_err(f))
         IN rb' = Append(rb, [failure |-> f, boundary |-> "rest", status |-> reply.status,
                              message |-> reply.message, error |-> NoVal])
    /\ UNCHANGED <<rc, asset_files, af, sgn, gm>>
    /\ UNCHANGED nonAuxVars

\* a resolver fails: graphql_private answers Ok(warp::reply::json(&res)), the
\* field error inside the body
graphql_request_fails ==
    /\ Len(rb) < MaxResponses
    /\ \E f \in GqlFailures :
         LET field_error == into_field_error(f)
         IN rb' = Append(rb, [failure |-> f, boundary |-> "graphql", status |-> 200,
                              message |-> field_error.message,
                              error |-> field_error.error])
    /\ UNCHANGED <<rc, asset_files, af, sgn, gm>>
    /\ UNCHANGED nonAuxVars

----------------------------------------------------------------------------
(* The asset-file store: insert_asset_file, db_get_asset_file,
   db_get_files_for_event, update_file_ipfs_hash *)

MaxAssetId == 3
MaxAssetCalls == 3

AssetIds == 1..MaxAssetId
Buckets == {"some_bucket", "other_bucket"}
AbsoluteKeys == {"a/b.png", "c/d.png"}
IpfsHashes == {"Qm1", "Qm2"}
AssetEventIds == {1, 2}

\* struct AssetFile
AssetFiles ==
    [id : AssetIds, s3_bucket : Buckets, s3_absolute_key : AbsoluteKeys,
     ipfs_hash : {NoVal, "Qm1"}, event_id : AssetEventIds]

\* the statement parameters $1..$5 in the order of ASSET_FILES_SELECT_FIELDS
asset_file_params(file) ==
    <<file.id, file.s3_bucket, file.s3_absolute_key, file.ipfs_hash, file.event_id>>

\* variant: the bucket and the key columns are read in the wrong order
AssetFile_try_from_swapped(row) ==
    [id |-> row[1], s3_bucket |-> row[3], s3_absolute_key |-> row[2],
     ipfs_hash |-> row[4], event_id |-> row[5]]

\* impl TryFrom<Row> for AssetFile: the columns by index
AssetFile_try_from(row) ==
    [id |-> row[1], s3_bucket |-> row[2], s3_absolute_key |-> row[3],
     ipfs_hash |-> row[4], event_id |-> row[5]]

\* the table's primary key: a row with this id exists
asset_files_pkey_violation(row) == \E r \in asset_files : r[1] = row[1]

\* the table's uniqueness constraint on a file's location: a row with this bucket
\* and this absolute key exists
asset_files_unique_violation(row) == \E r \in asset_files : r[2] = row[2] /\ r[3] = row[3]

\* variant: a repeated file replaces the stored one (INSERT .. ON CONFLICT DO UPDATE)
insert_asset_file_upsert(file) ==
    LET row == asset_file_params(file)
    IN [ok |-> TRUE,
        rows |-> {r \in asset_files : r[1] # row[1] /\ ~(r[2] = row[2] /\ r[3] = row[3])}
                   \cup {row}]

\* INSERT INTO asset_files (..) VALUES ($1, $2, $3, $4, $5); an error of execute is
\* returned with `?`, Ok(file.clone()) otherwise
insert_asset_file(file) ==
    LET row == asset_file_params(file)
    IN IF asset_files_pkey_violation(row) \/ asset_files_unique_violation(row)
       THEN [ok |-> FALSE, rows |-> asset_files]
       ELSE [ok |-> TRUE, rows |-> asset_files \cup {row}]

\* SELECT .. WHERE id = $1 through query_one: an error unless exactly one row
db_get_asset_file(id) ==
    LET rows == {r \in asset_files : r[1] = id}
    IN IF Cardinality(rows) = 1
       THEN [ok |-> TRUE, out |-> {AssetFile_try_from(r) : r \in rows}]
       ELSE [ok |-> FALSE, out |-> {}]

\* SELECT .. WHERE event_id = $1 through query
db_get_files_for_event(event_id) ==
    [ok |-> TRUE, out |-> {AssetFile_try_from(r) : r \in {q \in asset_files : q[5] = event_id}}]

\* variant: the update does not ask for an unset hash
update_file_ipfs_hash_any(id, hash) ==
    LET hit == {r \in asset_files : r[1] = id}
        new == {<<r[1], r[2], r[3], hash, r[5]>> : r \in hit}
    IN [ok |-> Cardinality(hit) = 1, rows |-> (asset_files \ hit) \cup new,
        out |-> {AssetFile_try_from(r) : r \in new}]

\* UPDATE .. SET ipfs_hash = $1 WHERE id = $2 AND ipfs_hash is NULL RETURNING ..
\* through query_one
update_file_ipfs_hash(id, hash) ==
    LET hit == {r \in asset_files : r[1] = id /\ r[4] = NoVal}
        new == {<<r[1], r[2], r[3], hash, r[5]>> : r \in hit}
    IN [ok |-> Cardinality(hit) = 1, rows |-> (asset_files \ hit) \cup new,
        out |-> {AssetFile_try_from(r) : r \in new}]

IdleAssetCalls ==
    [op |-> "none", id |-> NoId, hash |-> NoVal, ok |-> FALSE, out |-> {},
     inserted |-> {}, updated |-> {}, calls |-> 0]

\* a caller inserts a file
insert_asset_file_call ==
    /\ af.calls < MaxAssetCalls
    /\ \E file \in AssetFiles :
         LET res == insert_asset_file(file)
         IN /\ asset_files' = res.rows
            /\ af' = [af EXCEPT !.op = "insert_asset_file", !.id = file.id, !.hash = NoVal,
                                !.ok = res.ok, !.out = {file}, !.calls = @ + 1,
                                !.inserted = IF res.ok THEN @ \cup {file} ELSE @]
    /\ UNCHANGED <<rc, rb, sgn, gm>>
    /\ UNCHANGED nonAuxVars

\* a caller reads a file by id
db_get_asset_file_call ==
    /\ af.calls < MaxAssetCalls
    /\ \E id \in AssetIds :
         LET res == db_get_asset_file(id)
         IN af' = [af EXCEPT !.op = "db_get_asset_file", !.id = id, !.hash = NoVal,
                             !.ok = res.ok, !.out = res.out, !.calls = @ + 1]
    /\ UNCHANGED <<rc, rb, asset_files, sgn, gm>>
    /\ UNCHANGED nonAuxVars

\* a caller reads the files of an event
db_get_files_for_event_call ==
    /\ af.calls < MaxAssetCalls
    /\ \E event_id \in AssetEventIds :
         LET res == db_get_files_for_event(event_id)
         IN af' = [af EXCEPT !.op = "db_get_files_for_event", !.id = event_id,
                             !.hash = NoVal, !.ok = res.ok, !.out = res.out, !.calls = @ + 1]
    /\ UNCHANGED <<rc, rb, asset_files, sgn, gm>>
    /\ UNCHANGED nonAuxVars

\* a caller sets the ipfs hash of a file
update_file_ipfs_hash_call ==
    /\ af.calls < MaxAssetCalls
    /\ \E id \in AssetIds, hash \in IpfsHashes :
         LET res == update_file_ipfs_hash(id, hash)
         IN /\ asset_files' = res.rows
            /\ af' = [af EXCEPT !.op = "update_file_ipfs_hash", !.id = id, !.hash = hash,
                                !.ok = res.ok, !.out = res.out, !.calls = @ + 1,
                                !.updated = IF res.ok THEN @ \cup {<<id, hash>>} ELSE @]
    /\ UNCHANGED <<rc, rb, sgn, gm>>
    /\ UNCHANGED nonAuxVars

----------------------------------------------------------------------------
(* signin (wallet) and signin_with_password *)

NumSigninCalls == 1
SigninCalls == 1..NumSigninCalls

\* const MESSAGE: the fixed challenge a wallet sign-in signs
MESSAGE == "SECRET"

\* argon2 hash_encoded / verify_encoded
hash_password(password) == IF password = NoVal THEN NoVal ELSE "argon2(" \o password \o ")"
verify_password(hash, password) == hash = hash_password(password)

\* AccountId: neither empty, implicit nor the system account
check_normal_account(account_id) == account_id \notin {"", "system"}

\* the users of the sign-in runs: alice a buyer, bob a seller who signed in with a
\* password before
SigninUsers ==
    << [id |-> 1, username |-> "alice", phone_number |-> "+15551234567",
        password |-> NoVal, encrypted_secret_key |-> NoVal, wallet_id |-> "alice.testnet",
        user_type |-> "Buyer", user_status |-> "PhoneVerified"],
       [id |-> 2, username |-> "bob", phone_number |-> NoVal,
        password |-> hash_password("bob-secret"), encrypted_secret_key |-> NoVal,
        wallet_id |-> "bob.testnet", user_type |-> "Seller",
        user_status |-> "PhoneVerified"] >>

\* the ledger lists pkC as the access key of carol.testnet
SigninLedgerKeys == [InitLedgerKeys EXCEPT !["carol.testnet"] = {"pkC"}]

NoSignature == Sign(NoVal, bs58_encode(NoVal))

SigninPathRoles == {"seller", "admin", "buyer"}

\* SigninRequest: carol.testnet is a wallet no user has yet; pkC is public on the
\* ledger, only carol can sign with it
SigninRequest ==
    [wallet_id : {"bob.testnet", "carol.testnet", "system"}, username : {"bob", "carol"},
     phone_number : {NoVal, "+15550000000"}, password : {NoVal, "carol-secret"},
     pub_key : {NoVal, "pkB", "pkC"},
     signature : {NoSignature, Sign("pkB", bs58_encode(MESSAGE)),
                  Sign("pkX", bs58_encode(MESSAGE))}]

SigninWithPasswordRequest ==
    [username : {"alice", "bob", "carol"}, password : {"bob-secret", "carol-secret", "wrong"}]

IdleSigninCall ==
    [pc |-> "idle", handler |-> NoVal, role |-> NoVal, wallet_id |-> NoVal,
     username |-> NoVal, phone_number |-> NoVal, pwd_hash |-> NoVal, pub_key |-> NoVal,
     signature |-> NoSignature, db_user |-> NoRow, key_listed |-> FALSE,
     sig_verified |-> FALSE, inserted_user |-> NoId, jwt_token |-> NoJwt,
     result |-> NoVal]

SigninReject(call, err) == [call EXCEPT !.pc = "done", !.result = err]

db_get_user_by_username(username) ==
    QueryOne(users, {i \in DOMAIN users : users[i].username = username})

\* lines 313-362, one store read and no write: role from the path, the user by
\* username, the password check, the token
signin_with_password(r) ==
    /\ sgn[r].pc = "idle"
    /\ \E path_role \in SigninPathRoles, req_body \in SigninWithPasswordRequest :
         LET role == Role_try_from_str(path_role)
             allowed_roles == {"Seller", "Admin"}
             db_user == db_get_user_by_username(req_body.username)
             call == [sgn[r] EXCEPT !.handler = "signin_with_password", !.role = role,
                                    !.username = req_body.username, !.db_user = db_user]
         IN sgn' = [sgn EXCEPT ![r] =
                CASE role \notin allowed_roles -> SigninReject(call, "UnallowedUserRole")
                  [] role \in allowed_roles /\ db_user = NoRow ->
                        SigninReject(call, "UserNotFound")
                  [] role \in allowed_roles /\ db_user # NoRow
                        /\ db_user.user_type \notin allowed_roles ->
                        SigninReject(call, "UnallowedUserRole")
                  [] role \in allowed_roles /\ db_user # NoRow
                        /\ db_user.user_type \in allowed_roles /\ db_user.password = NoVal ->
                        SigninReject(call, "NoPassword")
                  [] role \in allowed_roles /\ db_user # NoRow
                        /\ db_user.user_type \in allowed_roles /\ db_user.password # NoVal
                        /\ ~verify_password(db_user.password, req_body.password) ->
                        SigninReject(call, "WrongCredentialsError")
                  [] OTHER ->
                        [call EXCEPT !.pc = "done", !.result = "Ok",
                                     !.jwt_token = create_jwt(uuid_to_string(db_user.id), role)]]
    /\ UNCHANGED users
    /\ UNCHANGED nonSigninVars

\* lines 95-144 and 195-243: role from the path, the user by wallet id; for a known
\* wallet the key and the signature must be present, for a new wallet the
\* username and phone number must be free, the account normal and the key present
signin_get_user(r) ==
    /\ sgn[r].pc = "idle"
    /\ \E path_role \in SigninPathRoles, req_body \in SigninRequest :
         LET role == Role_try_from_str(path_role)
             db_user == db_get_user_by_wallet_id(req_body.wallet_id)
             call == [sgn[r] EXCEPT !.handler = "signin", !.role = role,
                                    !.wallet_id = req_body.wallet_id,
                                    !.username = req_body.username,
                                    !.phone_number = req_body.phone_number,
                                    !.pwd_hash = hash_password(req_body.password),
                                    !.pub_key = req_body.pub_key,
                                    !.signature = req_body.signature,
                                    !.db_user = db_user]
         IN sgn' = [sgn EXCEPT ![r] =
                CASE role # "Seller" -> SigninReject(call, "OnlySeller")
                  [] role = "Seller" /\ db_user # NoRow /\ req_body.pub_key = NoVal ->
                        SigninReject(call, "MissingPubKey")
                  [] role = "Seller" /\ db_user # NoRow /\ req_body.pub_key # NoVal
                        /\ req_body.signature = NoSignature ->
                        SigninReject(call, "MissingSignature")
                  [] role = "Seller" /\ db_user # NoRow /\ req_body.pub_key # NoVal
                        /\ req_body.signature # NoSignature ->
                        [call EXCEPT !.pc = "known_get_account_keys"]
                  [] role = "Seller" /\ db_user = NoRow
                        /\ db_get_user_by_username(req_body.username) # NoRow ->
                        SigninReject(call, "UnavailableUsername")
                  [] role = "Seller" /\ db_user = NoRow
                        /\ db_get_user_by_username(req_body.username) = NoRow
                        /\ req_body.phone_number # NoVal
                        /\ db_get_user_by_phone_number(req_body.phone_number) # NoRow ->
                        SigninReject(call, "UnavailablePhoneNumber")
                  [] role = "Seller" /\ db_user = NoRow
                        /\ db_get_user_by_username(req_body.username) = NoRow
                        /\ (req_body.phone_number = NoVal
                            \/ db_get_user_by_phone_number(req_body.phone_number) = NoRow)
                        /\ ~check_normal_account(req_body.wallet_id) ->
                        SigninReject(call, "BadNormalAccount")
                  [] role = "Seller" /\ db_user = NoRow
                        /\ db_get_user_by_username(req_body.username) = NoRow
                        /\ (req_body.phone_number = NoVal
                            \/ db_get_user_by_phone_number(req_body.phone_number) = NoRow)
                        /\ check_normal_account(req_body.wallet_id)
                        /\ req_body.pub_key = NoVal ->
                        SigninReject(call, "MissingPubKey")
                  [] OTHER -> [call EXCEPT !.pc = "new_get_account_keys"]]
    /\ UNCHANGED users
    /\ UNCHANGED nonSigninVars

\* lines 145-167: get_account_keys under the client's lock, the key must be listed,
\* the user must be a seller
signin_known_get_account_keys(r) ==
    /\ sgn[r].pc = "known_get_account_keys"
    /\ grpc_lock = NoId
    /\ LET account_keys == get_account_keys(sgn[r].wallet_id)
       IN sgn' = [sgn EXCEPT ![r] =
              CASE sgn[r].pub_key \notin account_keys ->
                      SigninReject(sgn[r], "WrongWalletPubKey")
                [] sgn[r].pub_key \in account_keys /\ sgn[r].db_user.user_type # "Seller" ->
                      SigninReject(sgn[r], "OnlySeller")
                [] OTHER -> [sgn[r] EXCEPT !.pc = "known_verify_signature",
                                           !.key_listed = TRUE]]
    /\ UNCHANGED users
    /\ UNCHANGED nonSigninVars

\* lines 169-192: verify_signature over the encoded challenge under the client's
\* lock, then the token
signin_known_verify_signature(r) ==
    /\ sgn[r].pc = "known_verify_signature"
    /\ grpc_lock = NoId
    /\ LET sig_verified == verify_signature(bs58_encode(MESSAGE), sgn[r].pub_key,
                                            sgn[r].signature)
       IN sgn' = [sgn EXCEPT ![r] =
              IF ~sig_verified
              THEN SigninReject(sgn[r], "BadSignature")
              ELSE [sgn[r] EXCEPT !.pc = "done", !.result = "Ok", !.sig_verified = TRUE,
                                  !.jwt_token = create_jwt(uuid_to_string(sgn[r].db_user.id),
                                                           sgn[r].role)]]
    /\ UNCHANGED users
    /\ UNCHANGED nonSigninVars

\* lines 245-263: get_account_keys under the client's lock, the key must be listed
signin_new_get_account_keys(r) ==
    /\ sgn[r].pc = "new_get_account_keys"
    /\ grpc_lock = NoId
    /\ LET account_keys == get_account_keys(sgn[r].wallet_id)
       IN sgn' = [sgn EXCEPT ![r] =
              IF sgn[r].pub_key \notin account_keys
              THEN SigninReject(sgn[r], "WrongWalletPubKey")
              ELSE [sgn[r] EXCEPT !.pc = "new_get_account_balance", !.key_listed = TRUE]]
    /\ UNCHANGED users
    /\ UNCHANGED nonSigninVars

\* lines 265-277: get_account_balance under the client's lock
signin_new_get_account_balance(r) ==
    /\ sgn[r].pc = "new_get_account_balance"
    /\ grpc_lock = NoId
    /\ sgn' = [sgn EXCEPT ![r].pc = "new_insert_user"]
    /\ UNCHANGED users
    /\ UNCHANGED nonSigninVars

\* lines 279-302: the user row with the role of the path, then the token
signin_new_insert_user(r) ==
    /\ sgn[r].pc = "new_insert_user"
    /\ LET new_db_user ==
               [id |-> Len(users) + 1, username |-> sgn[r].username,
                phone_number |-> sgn[r].phone_number, password |-> sgn[r].pwd_hash,
                encrypted_secret_key |-> NoVal, wallet_id |-> sgn[r].wallet_id,
                user_type |-> sgn[r].role, user_status |-> "PhoneVerified"]
       IN /\ users' = db_insert_user(new_db_user)
          /\ sgn' = [sgn EXCEPT ![r].pc = "done", ![r].result = "Ok",
                                ![r].inserted_user = new_db_user.id,
                                ![r].jwt_token = create_jwt(uuid_to_string(new_db_user.id),
                                                            sgn[r].role)]
    /\ UNCHANGED nonSigninVars

signin(r) ==
    \/ signin_get_user(r)
    \/ signin_known_get_account_keys(r)
    \/ signin_known_verify_signature(r)
    \/ signin_new_get_account_keys(r)
    \/ signin_new_get_account_balance(r)
    \/ signin_new_insert_user(r)

----------------------------------------------------------------------------
(* GraphQL mutations on events: mint_nfts and update_event *)

NumMintCalls == 2
MintCalls == 1..NumMintCalls

EventNames == {"Concert", "Gala"}

IdleMintCall ==
    [pc |-> "idle", op |-> NoVal, user_id |-> NoId, ticket_id |-> NoId, event_id |-> NoId,
     db_event |-> NoRow, result |-> NoVal]

\* what a step of a mutation on events leaves alone
nonMintVars == <<now, ticks, sessions, users, ledger_keys, grpc_lock, pushed, vlc, smsVars, bsu, az, jwt_leeway, issued, rc, rb, asset_files, af, sgn, tickets, ticket_reservations, ctx_user_id, prq, ledgerVars>>

MintReturn(r, res) == [gm EXCEPT ![r].pc = "done", ![r].result = res]

\* UPDATE events SET event_name = $1, .., created_by_user = $13 WHERE id = $14:
\* event_status is not among the columns set
db_update_event(new_event) ==
    [i \in DOMAIN events |->
        IF events[i].id = new_event.id
        THEN [events[i] EXCEPT !.event_name = new_event.event_name,
                               !.created_by_user = new_event.created_by_user]
        ELSE events[i]]

\* mutations.rs 56-126: the user, the ticket, its event, the status and creator checks
mint_nfts_get_event(r) ==
    /\ gm[r].pc = "idle"
    /\ \E user_id \in {1, 2}, ticket_id \in {1, 3, 9} :
         LET db_user == db_get_user_by_id(user_id)
             db_ticket == db_get_ticket_by_id(ticket_id)
             db_event == db_get_event_by_id(db_ticket.event_id)
             call == [gm[r] EXCEPT !.op = "mint_nfts", !.user_id = user_id,
                                   !.ticket_id = ticket_id]
         IN gm' = [gm EXCEPT ![r] =
              IF db_user = NoRow \/ db_user.user_type # "Seller" \/ db_ticket = NoRow
                THEN [call EXCEPT !.pc = "done", !.result = "Validation"]
              ELSE IF db_event = NoRow
                      \/ db_event.event_status \notin {"Draft", "Minting"}
                      \/ db_user.id # db_event.created_by_user
                THEN [call EXCEPT !.pc = "done", !.result = "Validation",
                                  !.event_id = db_ticket.event_id]
              ELSE [call EXCEPT !.pc = "mint", !.event_id = db_event.id,
                                !.db_event = db_event]]
    /\ UNCHANGED events
    /\ UNCHANGED nonMintVars

\* mutations.rs 142-161: lock the ledger client, mint, drop the lock
mint_nfts_rpc(r) ==
    /\ gm[r].pc = "mint"
    /\ mutex_free(grpc_lock)
    /\ \/ gm' = MintReturn(r, "Grpc")
       \/ gm' = [gm EXCEPT ![r].pc = "update_event"]
    /\ UNCHANGED events
    /\ UNCHANGED nonMintVars

\* mutations.rs 164-171: a Draft event is set to Minting in memory and handed to
\* db_update_event
mint_nfts_update_event(r) ==
    /\ gm[r].pc = "update_event"
    /\ LET db_event == [gm[r].db_event EXCEPT !.event_status = "Minting"]
       IN IF gm[r].db_event.event_status = "Draft"
          THEN /\ events' = db_update_event(db_event)
               /\ gm' = [MintReturn(r, "Ok") EXCEPT ![r].db_event = db_event]
          ELSE /\ UNCHANGED events
               /\ gm' = MintReturn(r, "Ok")
    /\ UNCHANGED nonMintVars

mint_nfts(r) ==
    \/ mint_nfts_get_event(r)
    \/ mint_nfts_rpc(r)
    \/ mint_nfts_update_event(r)

\* mutations.rs 236-289: the user, the event, the Draft and creator checks, the
\* payload applied to the loaded row
update_event_get_event(r) ==
    /\ gm[r].pc = "idle"
    /\ \E user_id \in {1, 2}, event_id \in {1, 2, 9}, event_name \in EventNames :
         LET db_user == db_get_user_by_id(user_id)
             db_event == db_get_event_by_id(event_id)
             call == [gm[r] EXCEPT !.op = "update_event", !.user_id = user_id,
                                   !.event_id = event_id]
         IN gm' = [gm EXCEPT ![r] =
              IF db_user = NoRow \/ db_event = NoRow
                THEN [call EXCEPT !.pc = "done", !.result = "Validation"]
              ELSE IF db_event.event_status # "Draft"
                      \/ db_user.id # db_event.created_by_user
                THEN [call EXCEPT !.pc = "done", !.result = "Validation"]
              ELSE [call EXCEPT !.pc = "update_row",
                                !.db_event = [db_event EXCEPT !.event_name = event_name]]]
    /\ UNCHANGED events
    /\ UNCHANGED nonMintVars

\* mutations.rs 336-339: db_update_event with the row as edited
update_event_update(r) ==
    /\ gm[r].pc = "update_row"
    /\ events' = db_update_event(gm[r].db_event)
    /\ gm' = MintReturn(r, "Ok")
    /\ UNCHANGED nonMintVars

update_event(r) ==
    \/ update_event_get_event(r)
    \/ update_event_update(r)

----------------------------------------------------------------------------
(* Initial values of the conversion and boundary records *)

InitAux ==
    /\ rc = IdleRoleConversion
    /\ rb = <<>>
    /\ asset_files = {}
    /\ af = IdleAssetCalls
    /\ sgn = [r \in SigninCalls |-> IdleSigninCall]
    /\ gm = [r \in MintCalls |-> IdleMintCall]

----------------------------------------------------------------------------
(* Initial state: an empty session table, two registered users *)

InitStore ==
    /\ now = 0
    /\ ticks = 0
    /\ sessions = <<>>
    /\ users = InitUsers
    /\ ledger_keys = InitLedgerKeys
    /\ grpc_lock = NoId
    /\ pushed = {}
    /\ vlc = [r \in VerifyCalls |-> IdleCall]
    /\ recovery_sessions = <<>>
    /\ signup_sessions = <<>>
    /\ sms_log = {}
    /\ sms_failed = 0
    /\ smv = [r \in SmsVerifyCalls |-> IdleSmsCall]
    /\ bsu = [r \in SignupCalls |-> IdleSignupCall]
    /\ az = IdleAuth
    /\ issued = {}
    /\ events = InitEvents
    /\ tickets = InitTickets
    /\ ticket_reservations = <<>>
    /\ ctx_user_id = NoId
    /\ prq = [r \in ProtectedCalls |-> IdleProtectedCall]
    /\ lh = [r \in LedgerCalls |-> IdleLedgerCall]
    /\ rpc_in_flight = {}
    /\ InitAux

Init == InitStore /\ jwt_leeway = 0

\* the token validation's tolerance is that of the jsonwebtoken release in the build
InitAuth == InitStore /\ jwt_leeway \in Leeways

----------------------------------------------------------------------------
(* Passwordless login: create_login_code and concurrent verify_login_code *)

VerifyLoginCodeStep == \E r \in VerifyCalls : verify_login_code(r)

NextLogin ==
    \/ create_login_code
    \/ VerifyLoginCodeStep
    \/ Tick

SpecLogin == Init /\ [][NextLogin]_vars

----------------------------------------------------------------------------
(* Properties of the login-code flow *)

\* the body carries a signature over the code under its own public key, and the
\* wallet is that of a registered buyer whose ledger account lists the key
ValidLogin(body) ==
    /\ verify_signature(bs58_encode(body.code), body.pub_key, body.signature)
    /\ \E i \in DOMAIN users :
         /\ users[i].wallet_id = body.wallet_id
         /\ users[i].user_type = "Buyer"
    /\ body.pub_key \in ledger_keys[body.wallet_id]

\* the call found its session unused and unexpired when it loaded it
LoadedOpen(r) ==
    /\ vlc[r].db_session # NoRow
    /\ ~vlc[r].db_session.is_used
    /\ vlc[r].checked_at <= vlc[r].db_session.expires_at

TransportErrors == {"Grpc", "Pusher"}

\* C1: two verify_login_code calls that both loaded the same unused, unexpired
\* session, each with a verifying signature and a registered buyer wallet, end
\* with exactly one success and one used-session rejection.
C1_ExactlyOneVerifySucceeds ==
    \A r1, r2 \in VerifyCalls :
        ( /\ r1 # r2
          /\ vlc[r1].pc = "done" /\ vlc[r2].pc = "done"
          /\ LoadedOpen(r1) /\ LoadedOpen(r2)
          /\ vlc[r1].db_session.id = vlc[r2].db_session.id
          /\ ValidLogin(vlc[r1].req_body) /\ ValidLogin(vlc[r2].req_body)
          /\ vlc[r1].result \notin TransportErrors
          /\ vlc[r2].result \notin TransportErrors )
        => {vlc[r1].result, vlc[r2].result} = {"Ok", "UsedSession"}

\* C2: once a verify_login_code call has succeeded for a session, every call
\* that arrives later with that session's code is rejected with UsedSession.
C2_SingleUse ==
    [][ \A q, r \in VerifyCalls :
          ( /\ vlc[q].result = "Ok"
            /\ vlc[r].pc = "idle" /\ vlc'[r].pc # "idle"
            /\ vlc'[r].req_body.code = vlc[q].req_body.code )
          => vlc'[r].result = "UsedSession" ]_vars

\* C4: a login session expires LoginCodeExpirySecs after its creation and the
\* expiry is checked when the session is loaded: a call that loads it after the
\* expiry is rejected whatever it carries; a call that loads it unused up to the
\* expiry passes the session checks, and succeeds when its signature and wallet
\* are valid (unless the ledger or the notifier transport fails).
C4_LazyExpiry ==
    /\ \A i \in DOMAIN sessions :
          sessions[i].expires_at - LoginCodeExpirySecs \in 0..now
    /\ \A r \in VerifyCalls :
          (vlc[r].pc # "idle" /\ vlc[r].db_session # NoRow) =>
            /\ vlc[r].checked_at > vlc[r].db_session.expires_at
                  => vlc[r].result \in {"UsedSession", "ExpiredSession"}
            /\ LoadedOpen(r)
                  => vlc[r].result \notin
                        {"UsedSession", "ExpiredSession", "NoSessionForToken"}
            /\ (LoadedOpen(r) /\ vlc[r].pc = "done" /\ ValidLogin(vlc[r].req_body))
                  => vlc[r].result \in {"Ok"} \cup TransportErrors

\* a call at T+299 succeeded and a call at T+301 was rejected as expired
C4_Witness ==
    \E r1, r2 \in VerifyCalls :
        /\ vlc[r1].result = "Ok"
        /\ vlc[r1].checked_at = vlc[r1].db_session.expires_at - LoginCodeExpirySecs + 299
        /\ vlc[r2].result = "ExpiredSession"
        /\ vlc[r2].checked_at = vlc[r2].db_session.expires_at - LoginCodeExpirySecs + 301

----------------------------------------------------------------------------
(* SMS-delivered codes: recovery and phone signup *)

NextSms ==
    \/ buyer_create_recovery_code
    \/ buyer_register_phone
    \/ \E r \in SmsVerifyCalls : buyer_verify_recovery_code(r)
    \/ \E r \in SmsVerifyCalls : buyer_verify_phone(r)

SpecSms == Init /\ [][NextSms]_vars

MismatchErrors == {"SessionRecoveryCodeMismatch", "SessionVerificationCodeMismatch"}

MismatchOf(flow) ==
    IF flow = "recovery" THEN "SessionRecoveryCodeMismatch"
    ELSE "SessionVerificationCodeMismatch"

SmsTable(flow) == IF flow = "recovery" THEN recovery_sessions ELSE signup_sessions

\* C3: a verify call that loads a recovery or phone-signup session already
\* consumed by an earlier successful verify is rejected as consumed, also with
\* the correct code, and receives no credential.
C3_SmsCodesSingleUse ==
    \A r \in SmsVerifyCalls :
        ( /\ smv[r].pc = "done"
          /\ smv[r].db_session # NoRow
          /\ smv[r].db_session.consumed
          /\ smv[r].req_body.code = smv[r].db_session.code )
        => (smv[r].result = "UsedSession" /\ smv[r].jwt_token = NoJwt)

\* C5: the consumed status is checked before the code is compared: a call on a
\* consumed session ends with the consumed error whatever code it submits, and a
\* call naming a session that cannot be loaded ends with not-found.
C5_ConsumedCheckedBeforeCode ==
    \A r \in SmsVerifyCalls :
        smv[r].pc = "done" =>
            /\ (smv[r].db_session # NoRow /\ smv[r].db_session.consumed)
                  => smv[r].result = "UsedSession"
            /\ smv[r].db_session = NoRow => smv[r].result = "SessionNotFoundForUuid"

\* C6: a verify call whose code differs from the stored one (exact comparison)
\* ends with the flow's code-mismatch error and writes nothing: a session is
\* consumed only by a call that submitted exactly its code, and a call that
\* submits exactly the stored code is never turned away as a mismatch.
C6_MismatchLeavesSession ==
    /\ \A r \in SmsVerifyCalls :
          (smv[r].pc # "idle" /\ smv[r].db_session # NoRow) =>
             IF smv[r].req_body.code # smv[r].db_session.code
             THEN smv[r].pc = "done" /\ smv[r].result = MismatchOf(smv[r].flow)
             ELSE smv[r].result \notin MismatchErrors
                  /\ (smv[r].pc = "done" => smv[r].result = "Ok")
    /\ \A flow \in {"recovery", "phone"} :
          \A i \in DOMAIN SmsTable(flow) :
             SmsTable(flow)[i].consumed =>
                \E r \in SmsVerifyCalls :
                    /\ smv[r].flow = flow /\ smv[r].result = "Ok"
                    /\ smv[r].req_body.session_id = SmsTable(flow)[i].id
                    /\ smv[r].req_body.code = SmsTable(flow)[i].code

\* one call was turned away with WRONG1 or a different case, the session stayed
\* open, and a call with the stored code is past the comparison
C6_Witness ==
    \E r1, r2 \in SmsVerifyCalls :
        /\ smv[r1].flow = "recovery" /\ smv[r2].flow = "recovery"
        /\ smv[r1].result = "SessionRecoveryCodeMismatch"
        /\ to_lowercase(smv[r1].req_body.code) = to_lowercase(smv[r1].db_session.code)
        /\ smv[r2].req_body.session_id = smv[r1].req_body.session_id
        /\ smv[r2].result = "Ok"
        /\ recovery_sessions[smv[r2].db_session.id].consumed

----------------------------------------------------------------------------
(* Wallet-linked signup *)

\* a verified and an unverified phone-signup session are in the store
InitSignup ==
    /\ now = 0
    /\ ticks = 0
    /\ sessions = <<>>
    /\ users = InitUsers
    /\ ledger_keys = InitLedgerKeys
    /\ grpc_lock = NoId
    /\ pushed = {}
    /\ vlc = [r \in VerifyCalls |-> IdleCall]
    /\ recovery_sessions = <<>>
    /\ signup_sessions =
         << DbBuyerSignupSession_new(1, 0, "123456", "+15550000000", TRUE),
            DbBuyerSignupSession_new(2, 0, "654321", "+15550000000", FALSE) >>
    /\ sms_log = {}
    /\ sms_failed = 0
    /\ smv = [r \in SmsVerifyCalls |-> IdleSmsCall]
    /\ bsu = [r \in SignupCalls |-> IdleSignupCall]
    /\ az = IdleAuth
    /\ issued = {}
    /\ events = InitEvents
    /\ tickets = InitTickets
    /\ ticket_reservations = <<>>
    /\ ctx_user_id = NoId
    /\ prq = [r \in ProtectedCalls |-> IdleProtectedCall]
    /\ lh = [r \in LedgerCalls |-> IdleLedgerCall]
    /\ rpc_in_flight = {}
    /\ InitAux
    /\ jwt_leeway = 0

NextSignup == \E r \in SignupCalls : buyer_signup(r)

SpecSignup == InitSignup /\ [][NextSignup]_vars

\* the errors buyer_signup returns before it inserts the user row
PreCommitErrors ==
    {"UnavailableUsername", "SessionNotFoundForUuid", "UnverifiedUser", "Grpc",
     "WalletCreationFailed", "Pusher"}

SignupRows == {i \in DOMAIN users : i > Len(InitUsers)}

\* C7: a buyer_signup call that fails before the insert has written no user row
\* and holds no credential; every row added to users belongs to a call that
\* passed every earlier step; a Failed create_account status ends the call with
\* WalletCreationFailed.
C7_InsertIsCommitPoint ==
    /\ \A r \in SignupCalls :
          /\ bsu[r].result \in PreCommitErrors =>
                /\ bsu[r].new_user_id = NoId
                /\ bsu[r].jwt_token = NoJwt
                /\ \A i \in SignupRows : users[i].id # bsu[r].new_user_id
          /\ bsu[r].create_status = "Failed" =>
                (bsu[r].pc = "done" /\ bsu[r].result = "WalletCreationFailed")
          /\ bsu[r].pc # "done" => bsu[r].new_user_id = NoId
    /\ Cardinality(SignupRows) = Cardinality({r \in SignupCalls : bsu[r].result = "Ok"})
    /\ \A i \in SignupRows :
          \E r \in SignupCalls :
             /\ bsu[r].new_user_id = users[i].id
             /\ bsu[r].result = "Ok"
             /\ bsu[r].create_status = "Succeeded"
             /\ bsu[r].cypher # NoVal

\* one call was turned away with WalletCreationFailed, another one committed
C7_Witness ==
    \E r1, r2 \in SignupCalls :
        /\ bsu[r1].result = "WalletCreationFailed"
        /\ bsu[r2].result = "Ok"
        /\ Cardinality(SignupRows) = 1

\* C8: buyer_signup calls the ledger for key generation and account creation
\* only for a handle that is free locally and on the ledger.
C8_HandleAvailableBeforeLedger ==
    \A r \in SignupCalls :
        bsu[r].pc \in {"generate_implicit_account", "create_account"} =>
            /\ db_get_users_by_username(bsu[r].req_body.username) = {}
            /\ ledger_keys[near_account_id(bsu[r].req_body.username)] = {}

----------------------------------------------------------------------------
(* Requests at gated routes *)

NextAuth == with_auth

SpecAuth == InitAuth /\ [][NextAuth]_vars

\* a bearer token that decodes, with a role of the enumeration and a uuid subject
ValidCredential(headers) ==
    /\ headers.authorization = "Bearer "
    /\ headers.jwt.key = JwtSecret
    /\ headers.jwt.well_formed
    /\ headers.jwt.exp >= now
    /\ headers.jwt.role \in {"buyer", "seller", "admin", "superadmin", "BUYER"}
    /\ headers.jwt.sub = uuid_to_string(1)

RoleOfString(str) ==
    CASE str \in {"buyer", "BUYER"} -> "Buyer"
      [] str = "seller" -> "Seller"
      [] str = "admin" -> "Admin"
      [] str = "superadmin" -> "SuperAdmin"

\* C10: a request with a valid credential passes a gate exactly when the
\* credential's role is one of the roles the gate lists, and is otherwise
\* refused with NoPermissionError; no role stands in for another: a gate
\* {Admin} refuses a Buyer, a gate {Admin, Buyer} admits a Buyer, and a gate
\* {SuperAdmin} refuses an Admin.
C10_ExactRoleMembership ==
    (az.called /\ ValidCredential(az.headers)) =>
        /\ az.result.ok <=> RoleOfString(az.headers.jwt.role) \in az.roles
        /\ az.result.ok => az.result.user_id = 1
        /\ ~az.result.ok => az.result.err = "NoPermissionError"
        /\ (az.roles = {"Admin"} /\ az.headers.jwt.role = "buyer") =>
               az.result = AuthErr("NoPermissionError")
        /\ (az.roles = {"Admin", "Buyer"} /\ az.headers.jwt.role = "buyer") =>
               az.result = AuthOk(1)
        /\ (az.roles = {"SuperAdmin"} /\ az.headers.jwt.role = "admin") =>
               az.result = AuthErr("NoPermissionError")

\* a SuperAdmin credential was refused at a gate that lists every other role
C10_Witness ==
    /\ az.called
    /\ ValidCredential(az.headers)
    /\ az.headers.jwt.role = "superadmin"
    /\ az.roles = {"Admin", "Seller", "Buyer"}
    /\ az.result = AuthErr("NoPermissionError")

\* the token decodes: signed under JWT_SECRET, deserializable, not expired
Decodable(jwt) ==
    /\ jwt.key = JwtSecret
    /\ jwt.well_formed
    /\ jwt.exp > now

\* C11: authorize reports the first failing check of the fixed order header,
\* scheme, token validation, role parse, role membership, subject parse, whatever
\* the later checks would have said: a missing header or a non-Bearer scheme is
\* refused whatever token follows; a token that does not validate is refused
\* with JWTTokenError whatever its role and subject claims; an unknown role
\* string is refused with BadEncodedUserRole; an unlisted role is refused with
\* NoPermissionError also when the subject would not parse.
C11_FirstFailingCheck ==
    az.called =>
        LET h == az.headers
            jwt == az.headers.jwt
            known == jwt.role \in {"buyer", "seller", "admin", "superadmin", "BUYER"}
        IN /\ h.authorization \in {"absent", "not_utf8"} =>
                 az.result = AuthErr("NoAuthHeaderError")
           /\ h.authorization = "Basic " => az.result = AuthErr("InvalidAuthHeaderError")
           /\ (h.authorization = "Bearer " /\ ~Decodable(jwt)) =>
                 az.result = AuthErr("JWTTokenError")
           /\ (h.authorization = "Bearer " /\ Decodable(jwt) /\ ~known) =>
                 az.result = AuthErr("BadEncodedUserRole")
           /\ (h.authorization = "Bearer " /\ Decodable(jwt) /\ known
                  /\ RoleOfString(jwt.role) \notin az.roles) =>
                 az.result = AuthErr("NoPermissionError")
           /\ (h.authorization = "Bearer " /\ Decodable(jwt) /\ known
                  /\ RoleOfString(jwt.role) \in az.roles /\ jwt.sub = "not-a-uuid") =>
                 az.result = AuthErr("UnparsableUuid")

\* a valid token with an unlisted role and an unparsable subject was refused for
\* the role
C11_Witness ==
    /\ az.called
    /\ az.headers.authorization = "Bearer "
    /\ Decodable(az.headers.jwt)
    /\ az.headers.jwt.role = "buyer"
    /\ az.headers.jwt.sub = "not-a-uuid"
    /\ az.roles = {"Admin"}
    /\ az.result = AuthErr("NoPermissionError")

----------------------------------------------------------------------------
(* Credentials handed out by create_jwt and presented later *)

NextCredential ==
    \/ issue_jwt
    \/ AuthTick
    \/ with_auth_issued

SpecCredential == InitAuth /\ [][NextCredential]_vars

\* the presented token is one create_jwt handed out
Presented(t) ==
    /\ az.called
    /\ az.headers = [authorization |-> "Bearer ", jwt |-> t.jwt]

\* C13: a token create_jwt made for a user id and a role, presented before its
\* expiry at a gate whose list contains that role, is accepted with exactly that
\* user id, and the role read back from its role claim is exactly that role.
C13_CredentialRoundTrip ==
    \A t \in issued :
        /\ Role_try_from_str(t.jwt.role) = t.role
        /\ Uuid_parse_str(t.jwt.sub) = t.uid
        /\ (Presented(t) /\ az.at < t.jwt.exp /\ t.role \in az.roles) =>
               az.result = AuthOk(t.uid)

\* a SuperAdmin token of user 2 was accepted one second before its expiry
C13_Witness ==
    \E t \in issued :
        /\ t.role = "SuperAdmin"
        /\ t.uid = 2
        /\ Presented(t)
        /\ az.at = t.jwt.exp - 1
        /\ az.result = AuthOk(2)

----------------------------------------------------------------------------
(* Requests at the credential-protected routes *)

NextProtected ==
    \E r \in ProtectedCalls :
        \/ protected_with_auth(r)
        \/ event_ticket_get_verification_code(r)
        \/ get_event_from_verification_code(r)
        \/ graphql_private(r)

SpecProtected == Init /\ [][NextProtected]_vars

\* C12: a request at a protected route whose authorize call failed ends with
\* that error, runs no handler step, created no reservation row, and the
\* shared context and the store change only in steps of requests that passed
\* the gate.
C12_GateBeforeHandler ==
    \A r \in ProtectedCalls :
        (prq[r].pc # "idle" /\ ~prq[r].auth.ok) =>
            /\ prq[r].pc = "done"
            /\ prq[r].result = prq[r].auth.err
            /\ prq[r].handler_steps = 0
            /\ prq[r].created = {}
            /\ prq[r].acting_user = NoId
            /\ \A i \in 1..Len(ticket_reservations) :
                 \E q \in ProtectedCalls :
                     prq[q].auth.ok /\ ticket_reservations[i].id \in prq[q].created
            /\ ctx_user_id # NoId =>
                 \E q \in ProtectedCalls : prq[q].auth.ok /\ prq[q].user_id = ctx_user_id

\* a request with a forged token was refused while another request reserved a ticket
C12_Witness ==
    \E r, q \in ProtectedCalls :
        /\ prq[r].result = "JWTTokenError"
        /\ prq[r].req_body.route = "event_ticket_get_verification_code"
        /\ prq[r].req_body.reservations # <<>>
        /\ prq[q].result = "Ok"
        /\ prq[q].created # {}

\* the reservation rows a request created
CreatedRows(r) ==
    { ticket_reservations[i] :
        i \in {j \in 1..Len(ticket_reservations) : ticket_reservations[j].id \in prq[r].created} }

\* C19: a successful event_ticket_get_verification_code request listing N
\* reservations created exactly N rows, one per listed ticket, each with the
\* returned code, the requested event, the authenticated user and a ticket of
\* that event.
C19_ReservationRows ==
    \A r \in ProtectedCalls :
        (prq[r].req_body.route = "event_ticket_get_verification_code"
           /\ prq[r].result = "Ok") =>
            LET list == prq[r].req_body.reservations
            IN /\ Cardinality(prq[r].created) = Len(list)
               /\ Cardinality(CreatedRows(r)) = Len(list)
               /\ \A row \in CreatedRows(r) :
                    /\ row.verification_code = prq[r].verification_code
                    /\ uuid_to_string(row.event_id) = prq[r].req_body.event_id
                    /\ row.user_id = prq[r].auth.user_id
                    /\ \E i \in 1..Len(list) : uuid_to_string(row.ticket_id) = list[i]
                    /\ \E i \in 1..Len(tickets) :
                         tickets[i].id = row.ticket_id /\ tickets[i].event_id = row.event_id
               /\ \A i \in 1..Len(list) :
                    \E row \in CreatedRows(r) : uuid_to_string(row.ticket_id) = list[i]

\* a request listing two tickets succeeded
C19_Witness ==
    \E r \in ProtectedCalls :
        /\ prq[r].req_body.route = "event_ticket_get_verification_code"
        /\ prq[r].result = "Ok"
        /\ Len(prq[r].req_body.reservations) = 2
        /\ Cardinality(CreatedRows(r)) = 2

----------------------------------------------------------------------------
(* Concurrent handlers on the ledger client *)

NextLedger ==
    \E r \in LedgerCalls :
        \/ ledger_handler_start(r)
        \/ ledger_handler_await(r)
        \/ ledger_handler_lock(r)
        \/ ledger_handler_rpc_return(r)

SpecLedger == Init /\ [][NextLedger]_vars

\* C15: at most one RPC is executing on the ledger client, and it is the RPC
\* of the request that holds the lock.
C15_OneRpcInFlight ==
    /\ Cardinality(rpc_in_flight) <= 1
    /\ \A r \in rpc_in_flight : grpc_lock = r

\* an RPC of check_username is in flight while buyer_signup and mint_nfts wait
\* for the client
C15_Witness ==
    \E r, q1, q2 \in LedgerCalls :
        /\ rpc_in_flight = {r}
        /\ lh[r].handler = "check_username"
        /\ lh[q1].handler = "buyer_signup"
        /\ lh[q2].handler = "mint_nfts"
        /\ \A q \in {q1, q2} :
             /\ lh[q].pc = "run"
             /\ lh[q].phase = "step"
             /\ HandlerSteps(lh[q].handler)[lh[q].step] = "rpc"

\* the number of "rpc" await points of a handler
RpcCount(handler) ==
    Cardinality({i \in 1..Len(HandlerSteps(handler)) : HandlerSteps(handler)[i] = "rpc"})

\* C16: a request holds the lock only while its one RPC executes: not while it
\* awaits the store or the notifier or waits for the lock, not after it returned
\* (with Ok or with an error, an RPC error included); a request that returned Ok
\* acquired the lock once per RPC of its handler.
C16_LockDiscipline ==
    \A r \in LedgerCalls :
        /\ grpc_lock = r => (lh[r].pc = "run" /\ lh[r].phase = "rpc" /\ r \in rpc_in_flight)
        /\ lh[r].pc = "done" => grpc_lock # r
        /\ (lh[r].pc = "run" /\ lh[r].phase = "step") => grpc_lock # r
        /\ lh[r].result = "Ok" => lh[r].acquired = RpcCount(lh[r].handler)
        /\ lh[r].pc # "idle" => lh[r].acquired <= RpcCount(lh[r].handler)

\* a request returned the error of its second RPC and another request holds
\* the lock afterwards
C16_Witness ==
    \E r, q \in LedgerCalls :
        /\ lh[r].pc = "done"
        /\ lh[r].result = "Grpc"
        /\ lh[r].acquired = 2
        /\ grpc_lock = q
        /\ q # r

----------------------------------------------------------------------------
(* Properties of the SMS-delivered flows and of the login session row *)

\* every session row carries the phone number and the code of a delivered message
SessionRowsDelivered ==
    /\ \A i \in 1..Len(recovery_sessions) :
         [receiver |-> recovery_sessions[i].phone_number,
          body |-> <<"Your recovery code is: ", recovery_sessions[i].code>>] \in sms_log
    /\ \A i \in 1..Len(signup_sessions) :
         [receiver |-> signup_sessions[i].phone_number,
          body |-> <<"Your verification code is: ", signup_sessions[i].code>>] \in sms_log

\* C17: a request whose SMS the sender reported as failed ends at that point
\* and adds no session row, and every recovery or phone-signup session row
\* carries the phone number and the code of a message the sender delivered.
C17_SessionOnlyAfterDelivery ==
    /\ []SessionRowsDelivered
    /\ [][sms_failed' # sms_failed =>
            /\ recovery_sessions' = recovery_sessions
            /\ signup_sessions' = signup_sessions
            /\ sms_log' = sms_log]_vars

\* a send failed and left no row, another send was delivered and has its row
C17_Witness ==
    /\ sms_failed = 1
    /\ Len(recovery_sessions) = 1
    /\ signup_sessions = <<>>
    /\ Cardinality(sms_log) = 1

\* C18: a login session is used exactly when a user id is bound to it, and the
\* bound id is that of a buyer whose wallet, key and signature a
\* verify_login_code call on that session verified before it wrote the row.
C18_UsedIffBound ==
    \A i \in DOMAIN sessions :
        /\ sessions[i].is_used <=> sessions[i].user_id # NoId
        /\ sessions[i].is_used =>
             \E r \in VerifyCalls :
                 /\ vlc[r].pc \in {"pusher_send", "done"}
                 /\ vlc[r].db_session.id = sessions[i].id
                 /\ vlc[r].db_user.id = sessions[i].user_id
                 /\ vlc[r].db_user.user_type = "Buyer"
                 /\ vlc[r].db_user.wallet_id = vlc[r].req_body.wallet_id
                 /\ ValidLogin(vlc[r].req_body)

\* a session is used and bound to user 1 while another session is open
C18_Witness ==
    \E i, j \in DOMAIN sessions :
        /\ sessions[i].is_used
        /\ sessions[i].user_id = 1
        /\ ~sessions[j].is_used
        /\ sessions[j].user_id = NoId

----------------------------------------------------------------------------
(* Conversions between Role and its encodings *)

NextRole == role_conversions

SpecRole == Init /\ [][NextRole]_vars

\* the round trips of C20, and the integers that encode no role
RoleRoundTrips ==
    /\ rc.from_as_i16 = rc.role
    /\ rc.from_as_string = rc.role
    /\ rc.as_i16 \in {0, 1, 2, 4}
    /\ rc.as_string \in {"buyer", "seller", "admin", "superadmin"}
    /\ rc.n \notin {0, 1, 2, 4} => rc.from_n = NoVal

\* C20 as stated: both round trips yield the role, and every integer and every
\* string that is not the encoding of a role is rejected.
C20_ClosedEncodings ==
    rc.called =>
        /\ RoleRoundTrips
        /\ rc.str \notin {"buyer", "seller", "admin", "superadmin"} => rc.from_str = NoVal

\* C20 amended: both round trips yield the role, every integer that is not the
\* encoding of a role is rejected, and a string is rejected unless it is the
\* name of a role in some mix of upper and lower case, in which case it is
\* mapped to that role.
C20_ClosedEncodingsIgnoringCase ==
    rc.called =>
        /\ RoleRoundTrips
        /\ rc.str \in {"root", "ROOT", "super_admin", ""} => rc.from_str = NoVal
        /\ rc.str \in {"buyer", "BUYER"} => rc.from_str = "Buyer"
        /\ rc.str \in {"seller", "SELLER"} => rc.from_str = "Seller"
        /\ rc.str \in {"admin", "Admin"} => rc.from_str = "Admin"
        /\ rc.str \in {"superadmin", "SuperAdmin"} => rc.from_str = "SuperAdmin"

\* SuperAdmin went through both round trips, the integer 3 was rejected and the
\* string "BUYER" was read as Buyer
C20_Witness ==
    /\ rc.called
    /\ rc.role = "SuperAdmin"
    /\ rc.as_i16 = 4
    /\ rc.from_as_i16 = "SuperAdmin"
    /\ rc.n = 3
    /\ rc.from_n = NoVal
    /\ rc.str = "BUYER"
    /\ rc.from_str = "Buyer"

----------------------------------------------------------------------------
(* Failure responses *)

NextBoundary ==
    \/ rest_request_fails
    \/ graphql_request_fails

SpecBoundary == Init /\ [][NextBoundary]_vars

InternalFailureKinds ==
    {"store", "ledger_rpc", "notifier", "sms", "password_hash", "token_creation"}

\* the reason a session failure or a missing permission is reported with
ReasonOf(kind) ==
    CASE kind = "session_not_found" -> {"No session found for uuid: ", "No session for token: "}
      [] kind = "session_used" -> {"Used session for token: "}
      [] kind = "session_expired" -> {"Expired session for token: "}
      [] kind = "code_mismatch" -> {"Verification code for the session is incorrect: ",
                                    "Recovery code for the session is incorrect: "}
      [] OTHER -> {"No Permission"}

\* C21: an internal failure (store, ledger RPC, notifier, SMS, password hash,
\* token creation) is answered with status 500, the message 'Internal Server
\* Error' and no text of the underlying error; a session failure or a missing
\* permission is answered with a 4xx status and a message naming the reason.
C21_FailureClasses ==
    \A i \in 1..Len(rb) :
        /\ rb[i].failure.kind \in InternalFailureKinds =>
             /\ rb[i].status = 500
             /\ rb[i].message = <<"Internal Server Error", NoVal>>
             /\ rb[i].error = NoVal
        /\ rb[i].failure.kind \notin InternalFailureKinds =>
             /\ rb[i].status \in 400..499
             /\ rb[i].message[1] \in ReasonOf(rb[i].failure.kind)

----------------------------------------------------------------------------
(* The asset-file store *)

NextAsset ==
    \/ insert_asset_file_call
    \/ db_get_asset_file_call
    \/ db_get_files_for_event_call
    \/ update_file_ipfs_hash_call

SpecAsset == Init /\ [][NextAsset]_vars

\* the files whose insert succeeded and whose hash no update has set since
NeverUpdated == {f \in af.inserted : \A u \in af.updated : u[1] # f.id}

\* the inserted file with the hash a later update gave it
AsStoredNow(f) ==
    IF \E u \in af.updated : u[1] = f.id
    THEN [f EXCEPT !.ipfs_hash = (CHOOSE u \in af.updated : u[1] = f.id)[2]]
    ELSE f

\* C22: db_get_asset_file with the id of a file whose insert succeeded returns
\* a record equal to the inserted one in every field, and db_get_files_for_event
\* returns exactly the files inserted for the event.
C22_AssetFileRoundTrip ==
    /\ \A f \in NeverUpdated : db_get_asset_file(f.id) = [ok |-> TRUE, out |-> {f}]
    /\ \A e \in AssetEventIds :
         db_get_files_for_event(e).out = {AsStoredNow(f) : f \in {g \in af.inserted : g.event_id = e}}
    /\ (af.op = "db_get_asset_file" /\ af.ok) => af.out = {AsStoredNow(f) : f \in {g \in af.inserted : g.id = af.id}}

\* two files of one event were inserted, one was refused, and the event's files
\* have just been read
C22_Witness ==
    /\ af.op = "db_get_files_for_event"
    /\ Cardinality(af.out) = 2
    /\ af.out = af.inserted
    /\ af.updated = {}

\* C23: an insert of a file whose bucket and absolute key are those of a stored
\* file returns an error and leaves the table as it was.
C23_RepeatedFileRejected ==
    [][\A file \in AssetFiles :
          (/\ af'.op = "insert_asset_file"
           /\ af'.out = {file}
           /\ \E r \in asset_files : r[1] # file.id /\ r[2] = file.s3_bucket /\ r[3] = file.s3_absolute_key)
          => (~af'.ok /\ asset_files' = asset_files /\ af'.inserted = af.inserted)]_vars

\* an insert under a fresh id has just been refused for a stored bucket and key
C23_Witness ==
    /\ af.op = "insert_asset_file"
    /\ ~af.ok
    /\ \A r \in asset_files : r[1] # af.id
    /\ \E r \in asset_files, f \in af.out : r[2] = f.s3_bucket /\ r[3] = f.s3_absolute_key

\* C24: update_file_ipfs_hash on a file without a hash sets the hash and nothing
\* else, so that db_get_asset_file returns the inserted record with the hash
\* replaced; on a file that has a hash it fails and changes nothing.
C24_HashSetOnce ==
    /\ [](\A f \in af.inserted : db_get_asset_file(f.id) = [ok |-> TRUE, out |-> {AsStoredNow(f)}])
    /\ [][af'.op = "update_file_ipfs_hash" =>
            LET before == {r \in asset_files : r[1] = af'.id}
            IN /\ (\E r \in before : r[4] # NoVal) => (~af'.ok /\ asset_files' = asset_files)
               /\ (\E r \in before : r[4] = NoVal) =>
                    /\ af'.ok
                    /\ asset_files' = (asset_files \ before) \cup {<<r[1], r[2], r[3], af'.hash, r[5]>> : r \in before}
               /\ before = {} => (~af'.ok /\ asset_files' = asset_files)]_vars

\* a file's hash was set by one update and a second update of it has just failed
C24_Witness ==
    /\ af.op = "update_file_ipfs_hash"
    /\ ~af.ok
    /\ \E u \in af.updated : u[1] = af.id /\ u[2] # af.hash
    /\ \E r \in asset_files : r[1] = af.id /\ r[4] # af.hash /\ r[4] # NoVal

----------------------------------------------------------------------------
(* Isolation of the requests at the private GraphQL endpoint *)

\* C25: the resolvers of a request at the private GraphQL endpoint act for the
\* user id that authorize returned for that same request.
C25_RequestIsolation ==
    \A r \in ProtectedCalls :
        (/\ prq[r].req_body.route = "graphql_private"
         /\ prq[r].pc = "done"
         /\ prq[r].result = "Ok")
        => prq[r].acting_user = prq[r].user_id

----------------------------------------------------------------------------
(* Sign-in: the role and the subject of the issued credentials *)

InitSignin ==
    /\ now = 0
    /\ ticks = 0
    /\ sessions = <<>>
    /\ users = SigninUsers
    /\ ledger_keys = SigninLedgerKeys
    /\ grpc_lock = NoId
    /\ pushed = {}
    /\ vlc = [r \in VerifyCalls |-> IdleCall]
    /\ recovery_sessions = <<>>
    /\ signup_sessions = <<>>
    /\ sms_log = {}
    /\ sms_failed = 0
    /\ smv = [r \in SmsVerifyCalls |-> IdleSmsCall]
    /\ bsu = [r \in SignupCalls |-> IdleSignupCall]
    /\ az = IdleAuth
    /\ issued = {}
    /\ events = InitEvents
    /\ tickets = InitTickets
    /\ ticket_reservations = <<>>
    /\ ctx_user_id = NoId
    /\ prq = [r \in ProtectedCalls |-> IdleProtectedCall]
    /\ lh = [r \in LedgerCalls |-> IdleLedgerCall]
    /\ rpc_in_flight = {}
    /\ InitAux
    /\ jwt_leeway = 0

NextSignin ==
    \/ \E r \in SigninCalls : signin(r)
    \/ \E r \in SigninCalls : signin_with_password(r)
    \/ buyer_create_recovery_code
    \/ \E r \in SmsVerifyCalls : buyer_verify_recovery_code(r)

SpecSignin == InitSignin /\ [][NextSignin]_vars

\* the token's role claim is the stored role of the user the token names
RoleOfSubject(jwt) ==
    \E i \in DOMAIN users :
        /\ users[i].id = Uuid_parse_str(jwt.sub)
        /\ jwt.role = Role_to_string(users[i].user_type)

\* C26: the role claim of every credential returned by signin,
\* signin_with_password and buyer_verify_recovery_code is the user_type of the
\* user whose id is the credential's subject.
C26_TokenRoleIsStoredRole ==
    /\ \A r \in SigninCalls : sgn[r].jwt_token # NoJwt => RoleOfSubject(sgn[r].jwt_token)
    /\ \A r \in SmsVerifyCalls : smv[r].jwt_token # NoJwt => RoleOfSubject(smv[r].jwt_token)

\* C27: a signin call that returned a credential or created a user row had the
\* ledger verify a signature over the challenge under a key the ledger lists for
\* the wallet.
C27_SigninProvesPossession ==
    \A r \in SigninCalls :
        (/\ sgn[r].handler = "signin"
         /\ (sgn[r].jwt_token # NoJwt \/ sgn[r].inserted_user # NoId))
        => (sgn[r].key_listed /\ sgn[r].sig_verified)

----------------------------------------------------------------------------
(* Conditions of a passwordless login *)

\* the submitted signature is one over the loaded session's code in base58,
\* made with the submitted public key
SignedIssuedCode(r) ==
    /\ vlc[r].req_body.signature.signer = vlc[r].req_body.pub_key
    /\ vlc[r].req_body.signature.message = bs58_encode(vlc[r].db_session.login_code)

\* a user row carries the submitted wallet id
WalletRegistered(r) ==
    \E i \in DOMAIN users : users[i].wallet_id = vlc[r].req_body.wallet_id

\* the call holds the row of the submitted wallet and the ledger lists the
\* submitted key for that row's wallet
KeyOnUserWallet(r) ==
    /\ vlc[r].db_user # NoRow
    /\ \E i \in DOMAIN users : users[i] = vlc[r].db_user
    /\ vlc[r].db_user.wallet_id = vlc[r].req_body.wallet_id
    /\ vlc[r].req_body.pub_key \in ledger_keys[vlc[r].db_user.wallet_id]

\* C28: verify_login_code issues a credential only after all its checks have
\* passed, in this order: the session was found, unused and unexpired when
\* loaded; the signature verifies over the session's issued code under the
\* submitted public key; a user with the submitted wallet id exists; the key is
\* among the keys the ledger lists for that user's wallet; the user is a Buyer.
\* The credential's subject is that user, a rejection names the first check
\* that failed, and every published credential is one such a call issued.
C28_ChecksBeforeCredential ==
    /\ \A r \in VerifyCalls :
         LET sessionOk == LoadedOpen(r)
             sigOk == sessionOk /\ SignedIssuedCode(r)
             userOk == sigOk /\ WalletRegistered(r)
             keyOk == userOk /\ KeyOnUserWallet(r)
         IN /\ vlc[r].jwt_token # NoJwt =>
                  /\ keyOk
                  /\ vlc[r].db_user.user_type = "Buyer"
                  /\ vlc[r].jwt_token.sub = uuid_to_string(vlc[r].db_user.id)
                  /\ vlc[r].jwt_token.role = Role_to_string("Buyer")
            /\ vlc[r].result = "Ok" => vlc[r].jwt_token # NoJwt
            /\ vlc[r].result = "BadSignature" =>
                  sessionOk /\ ~SignedIssuedCode(r)
            /\ vlc[r].result = "UserNotFound" => sigOk /\ ~WalletRegistered(r)
            /\ vlc[r].result = "WrongWalletPubKey" =>
                  /\ userOk
                  /\ vlc[r].req_body.pub_key \notin ledger_keys[vlc[r].req_body.wallet_id]
            /\ vlc[r].result = "OnlyBuyer" =>
                  keyOk /\ vlc[r].db_user.user_type # "Buyer"
    /\ \A p \in pushed :
         \E r \in VerifyCalls : vlc[r].jwt_token # NoJwt /\ p.payload = vlc[r].jwt_token

\* one call was issued and published a credential while another, with a listed
\* key on a seller's wallet, was stopped at the last check
C28_Witness ==
    \E r, q \in VerifyCalls :
        /\ vlc[r].result = "Ok"
        /\ \E p \in pushed : p.payload = vlc[r].jwt_token
        /\ vlc[q].result = "OnlyBuyer"

\* C29: a verify_login_code call that fails or is abandoned leaves its session
\* unconsumed: a session is marked used only on behalf of a call that succeeds
\* (or is still on its way to the notifier).
C29_FailedCallLeavesSessionOpen ==
    \A i \in DOMAIN sessions :
        sessions[i].is_used =>
            \E r \in VerifyCalls :
                /\ vlc[r].db_session # NoRow
                /\ vlc[r].db_session.id = sessions[i].id
                /\ (vlc[r].pc = "pusher_send" \/ vlc[r].result = "Ok")

\* C30: every open login session is redeemable whatever other sessions exist: a
\* call arriving with the code of an unused, unexpired session passes the
\* session checks.
C30_OpenSessionRedeemable ==
    [][ \A r \in VerifyCalls :
          ( /\ vlc[r].pc = "idle" /\ vlc'[r].pc # "idle"
            /\ \E i \in DOMAIN sessions :
                 /\ sessions[i].login_code = vlc'[r].req_body.code
                 /\ ~sessions[i].is_used
                 /\ now <= sessions[i].expires_at )
          => vlc'[r].result \notin
                {"NoSessionForToken", "UsedSession", "ExpiredSession"} ]_vars

----------------------------------------------------------------------------
(* Accounts per signup session *)

\* C31: buyer_signup creates a user row only from a phone-signup session whose
\* is_verified flag is true, and no two user rows are created from the same
\* signup session.
C31_OneAccountPerSignupSession ==
    /\ \A r \in SignupCalls :
         bsu[r].new_user_id # NoId =>
            /\ bsu[r].db_session # NoRow
            /\ bsu[r].db_session.consumed
    /\ \A r1, r2 \in SignupCalls :
         ( /\ r1 # r2
           /\ bsu[r1].new_user_id # NoId
           /\ bsu[r2].new_user_id # NoId )
         => bsu[r1].db_session.id # bsu[r2].db_session.id

----------------------------------------------------------------------------
(* Ticket redemption *)

TicketRoutes == {"event_ticket_get_verification_code", "get_event_from_verification_code"}

\* the handler went past its role check
HandlerLogicRan(r) ==
    /\ prq[r].req_body.route \in TicketRoutes
    /\ prq[r].handler_steps > 0
    /\ prq[r].result \notin {"UnallowedUserRole", "OnlyBuyer"}

\* C32: the two ticket-redemption handlers run their logic only for a caller
\* whose validated credential carries the role Buyer.
C32_TicketRoutesBuyerOnly ==
    \A r \in ProtectedCalls :
        HandlerLogicRan(r) => Role_try_from_str(prq[r].headers.jwt.role) = "Buyer"

\* C33: a failed event_ticket_get_verification_code request leaves none of its
\* reservation rows in the store.
C33_ReservationsAllOrNothing ==
    \A r \in ProtectedCalls :
        ( /\ prq[r].req_body.route = "event_ticket_get_verification_code"
          /\ prq[r].pc = "done"
          /\ prq[r].result # "Ok" )
        => \A i \in DOMAIN ticket_reservations :
               ticket_reservations[i].id \notin prq[r].created

\* the rows of ticket_reservations that carry the code
CarryCode(code) ==
    {i \in DOMAIN ticket_reservations : ticket_reservations[i].verification_code = code}

\* C34: get_event_from_verification_code goes on to fetch an event only when
\* some reservation carries the submitted code, every reservation carrying it
\* belongs to the calling user and all of them refer to one event, which is the
\* event fetched; a call that returned an event passed that point.
C34_EventOnlyThroughOwnCode ==
    /\ [](\A r \in ProtectedCalls :
            ( /\ prq[r].req_body.route = "get_event_from_verification_code"
              /\ (prq[r].result = "Ok" \/ prq[r].pc \in {"get_event", "get_tickets"}) )
            => \E i \in CarryCode(prq[r].req_body.verification_code) :
                  /\ ticket_reservations[i].user_id = prq[r].user_id
                  /\ ticket_reservations[i].event_id = prq[r].event_id)
    /\ [][ \A r \in ProtectedCalls :
             ( /\ prq[r].req_body.route = "get_event_from_verification_code"
               /\ prq[r].pc = "handler"
               /\ prq'[r].pc = "get_event" )
             => /\ CarryCode(prq[r].req_body.verification_code) # {}
                /\ \A i \in CarryCode(prq[r].req_body.verification_code) :
                      /\ ticket_reservations[i].user_id = prq[r].user_id
                      /\ ticket_reservations[i].event_id = prq'[r].event_id ]_vars

\* a caller was handed the event of its own reservation
C34_Witness ==
    \E r \in ProtectedCalls :
        /\ prq[r].req_body.route = "get_event_from_verification_code"
        /\ prq[r].result = "Ok"
        /\ prq[r].event_id = 1
        /\ \E i \in CarryCode(prq[r].req_body.verification_code) :
              ticket_reservations[i].user_id = prq[r].user_id

----------------------------------------------------------------------------
(* Passwordless login with two registered buyers *)

\* the users table with both wallets registered as buyers
TwoBuyers == [InitUsers EXCEPT ![2].user_type = "Buyer"]

InitTwoBuyers ==
    /\ now = 0
    /\ ticks = 0
    /\ sessions = <<>>
    /\ users = TwoBuyers
    /\ ledger_keys = InitLedgerKeys
    /\ grpc_lock = NoId
    /\ pushed = {}
    /\ vlc = [r \in VerifyCalls |-> IdleCall]
    /\ recovery_sessions = <<>>
    /\ signup_sessions = <<>>
    /\ sms_log = {}
    /\ sms_failed = 0
    /\ smv = [r \in SmsVerifyCalls |-> IdleSmsCall]
    /\ bsu = [r \in SignupCalls |-> IdleSignupCall]
    /\ az = IdleAuth
    /\ issued = {}
    /\ events = InitEvents
    /\ tickets = InitTickets
    /\ ticket_reservations = <<>>
    /\ ctx_user_id = NoId
    /\ prq = [r \in ProtectedCalls |-> IdleProtectedCall]
    /\ lh = [r \in LedgerCalls |-> IdleLedgerCall]
    /\ rpc_in_flight = {}
    /\ InitAux
    /\ jwt_leeway = 0

SpecTwoBuyers == InitTwoBuyers /\ [][NextLogin]_vars

\* every row of the table is still there, with its flag not cleared
FlagsKept(before, after) ==
    /\ Len(after) >= Len(before)
    /\ \A i \in DOMAIN before :
         /\ after[i].id = before[i].id
         /\ before[i].consumed => after[i].consumed

\* C35: a session's consumed flag never goes back from true to false, no
\* session row is deleted, and a login session bound to a user id stays bound
\* to that user.
C35_ConsumptionMonotonic ==
    [][ /\ Len(sessions') >= Len(sessions)
        /\ \A i \in DOMAIN sessions :
             /\ sessions'[i].id = sessions[i].id
             /\ sessions[i].is_used => sessions'[i].is_used
             /\ sessions[i].user_id # NoId => sessions'[i].user_id = sessions[i].user_id
        /\ FlagsKept(signup_sessions, signup_sessions')
        /\ FlagsKept(recovery_sessions, recovery_sessions') ]_vars

----------------------------------------------------------------------------
(* Independence of sessions *)

\* the rows of a table that a step changed
RowsChanged(before, after) ==
    {i \in DOMAIN before : i \notin DOMAIN after \/ after[i] # before[i]}

----------------------------------------------------------------------------
(* Progress of the requests on the ledger client *)

NumFairLedgerCalls == 2
FairLedgerCalls == 1..NumFairLedgerCalls

\* every started await returns, every started RPC returns, and a request at
\* lock().await gets the lock once it stays free (the tokio Mutex hands the
\* lock out in FIFO order)
LedgerFairness ==
    \A r \in FairLedgerCalls :
        /\ WF_vars(ledger_handler_await(r))
        /\ WF_vars(ledger_handler_rpc_return(r))
        /\ WF_vars(ledger_handler_lock(r))

NextLedgerFair ==
    \E r \in FairLedgerCalls :
        \/ ledger_handler_start(r)
        \/ ledger_handler_await(r)
        \/ ledger_handler_lock(r)
        \/ ledger_handler_rpc_return(r)

SpecLedgerFair == Init /\ [][NextLedgerFair]_vars /\ LedgerFairness

\* the request is at a lock().await
WaitsForLock(r) ==
    /\ lh[r].pc = "run"
    /\ lh[r].phase = "step"
    /\ HandlerSteps(lh[r].handler)[lh[r].step] = "rpc"

----------------------------------------------------------------------------
(* Minting and the status of the event *)

NextMint ==
    \/ \E r \in MintCalls : mint_nfts(r)
    \/ \E r \in MintCalls : update_event(r)

SpecMint == Init /\ [][NextMint]_vars

\* C38: after mint_nfts has succeeded for a ticket of a Draft event the stored
\* status of the event is Minting, an update_event request arriving afterwards
\* for that event is rejected, and the stored status never goes from Minting
\* back to Draft.
C38_MintingLeavesDraft ==
    /\ [](\A r \in MintCalls :
            (gm[r].op = "mint_nfts" /\ gm[r].result = "Ok")
            => db_get_event_by_id(gm[r].event_id).event_status = "Minting")
    /\ [][ \A r \in MintCalls :
             ( /\ gm[r].pc = "idle"
               /\ gm'[r].op = "update_event"
               /\ \E q \in MintCalls :
                    /\ gm[q].op = "mint_nfts"
                    /\ gm[q].result = "Ok"
                    /\ gm[q].event_id = gm'[r].event_id )
             => gm'[r].result = "Validation" ]_vars
    /\ [][ \A i \in DOMAIN events :
             events[i].event_status = "Minting" => events'[i].event_status = "Minting" ]_vars

====
